---- MODULE Spec2Model ----
(***************************************************************************)
(* Authentication core of the Contact Book API (upcontacts_api):           *)
(* the token codec (auth/jwt_handler.py), the identity cache               *)
(* (redis_client.py), the session resolver (auth/dependencies.py) and the  *)
(* account lifecycle handlers (auth/routes.py).                            *)
(*                                                                         *)
(* Time is counted in minutes.  Optional values (Python None) are the      *)
(* empty sequence, a present value x is <<x>>.                             *)
(***************************************************************************)
EXTENDS Integers, Sequences, FiniteSets, TLC

\* ------------------------------------------------------------------ bounds
MaxTicks == 2
MaxResets == 1
MaxContacts == 2
Emails == {"a@x.com", "b@x.com"}
Passwords == {"secret1", "secret2"}

\* ------------------------------------------------------- program constants
ACCESS_TOKEN_EXPIRE_MINUTES == 15
REFRESH_TOKEN_EXPIRE_DAYS == 7
CacheExpireSeconds == 3600
ResetTokenHours == 1
\* the validity the verification mail announces
VerificationTokenHours == 24
SECRET_KEY == "SECRET_KEY"

\* timedelta arithmetic, in minutes
Minutes(m) == m
Hours(h) == h * 60
Days(d) == d * 24 * 60
Seconds(s) == s \div 60

\* the clock advances in steps of the lifetime of a reset token
TickMinutes == Hours(ResetTokenHours)

None == <<>>
Some(x) == <<x>>
IsNone(o) == o = <<>>
Val(o) == o[1]

VARIABLES
    users,            \* the users table: a set of rows
    next_id,          \* the autoincrement primary key
    redis,            \* the Redis keyspace: key -> [data, expire_at]
    redis_up,         \* whether the Redis server answers
    mail_up,          \* whether the mail server accepts messages
    now,              \* the wall clock, in minutes
    rnd,              \* how many reset tokens secrets has produced
    \* history of the requests served, read by the properties only
    registered,       \* identity -> password and token of its successful Register
    current_pw,       \* identity -> password set by Register or the last reset
    verified_tokens,  \* tokens a VerifyEmail call has succeeded with
    reset_issued,     \* identity -> its outstanding reset token and issue time
    consumed_tokens,  \* reset tokens a ConsumePasswordReset has succeeded with
    \* the component harnesses
    codec,            \* Token Codec: the inputs, the token and what verify said
    puts,             \* Identity Cache: identity -> the last put not invalidated
    \* the contact book
    contacts,         \* the contacts table: a set of rows
    next_contact_id,  \* its autoincrement primary key
    \* requests served concurrently, each in a worker thread with a db session
    requests          \* client -> the request it has in flight or had answered

store == <<users, next_id, redis, rnd>>
env == <<redis_up, mail_up, now>>
book == <<contacts, next_contact_id>>
history == <<registered, current_pw, verified_tokens, reset_issued, consumed_tokens>>
vars == <<users, next_id, redis, redis_up, mail_up, now, rnd,
          registered, current_pw, verified_tokens, reset_issued, consumed_tokens,
          codec, puts, contacts, next_contact_id, requests>>

\* ============================================================ Token Codec
\* jose.jwt.encode: the claims and an HMAC over them under the key
jwt_encode(claims, key) ==
    [fmt |-> "jws", claims |-> claims, sig |-> <<key, claims>>]

\* `expires_delta or default`: None and timedelta(0) are both falsy
OrDefault(expires_delta, default) ==
    IF IsNone(expires_delta) \/ expires_delta = Some(0)
    THEN default ELSE Val(expires_delta)

create_access_token(data, expires_delta, t) ==
    LET expire == t + OrDefault(expires_delta, Minutes(ACCESS_TOKEN_EXPIRE_MINUTES))
    IN jwt_encode([sub |-> data.sub, exp |-> expire], SECRET_KEY)

\* a refresh token made exactly as an access token is
create_refresh_token_AsAccess(data, expires_delta, t) ==
    create_access_token(data, expires_delta, t)

create_refresh_token(data, expires_delta, t) ==
    LET expire == t + OrDefault(expires_delta, Days(REFRESH_TOKEN_EXPIRE_DAYS))
    IN jwt_encode([sub |-> data.sub, exp |-> expire], SECRET_KEY)

\* a decode that checks the expiry but not the signature
decode_token_IgnoresSignature(token, t) ==
    IF token.fmt = "jws" /\ ~(token.claims.exp < t)
    THEN Some(token.claims) ELSE None

\* a decode that checks the signature but not the expiry
decode_token_IgnoresExpiry(token, t) ==
    IF token.fmt = "jws" /\ token.sig = <<SECRET_KEY, token.claims>>
    THEN Some(token.claims) ELSE None

\* jose.jwt.decode raises JWTError on a malformed token, a signature that
\* does not verify, or exp < now; decode_token turns all of them into None
decode_token(token, t) ==
    IF /\ token.fmt = "jws"
       /\ token.sig = <<SECRET_KEY, token.claims>>
       /\ ~(token.claims.exp < t)
    THEN Some(token.claims) ELSE None

\* ========================================================= random values
\* secrets.token_urlsafe(32): a value never returned before; the seed names
\* the draw (the account a verification token is made for, the number of the
\* reset token), so distinct draws give distinct tokens
token_urlsafe(seed) == <<"tok", seed>>
BogusToken == <<"tok", <<"bogus">> >>
VerificationTokens == {token_urlsafe(<<"verify", i>>) : i \in 1..Cardinality(Emails)}
ResetTokens == {token_urlsafe(<<"reset", n>>) : n \in 1..MaxResets}

\* ========================================================== password hash
\* bcrypt: a salted hash that verifies exactly the password it was made from
get_password_hash(password, salt) == [salt |-> salt, pw |-> password]
verify_password(plain_password, hashed_password) ==
    hashed_password.pw = plain_password
EmptyHash == [salt |-> <<>>, pw |-> ""]
\* bcrypt draws a new salt for every hash: the n-th hash made for account id
FirstSalt(id) == <<id, 1>>
NextSalt(hashed_password) == <<hashed_password.salt[1], hashed_password.salt[2] + 1>>

\* ========================================================= Identity Cache
UserKey(user_email) == <<"user:", user_email>>

JsonOpt(o) == IF IsNone(o) THEN <<"null">> ELSE <<"string", Val(o)>>
JsonBool(b) == IF b THEN <<"true">> ELSE <<"false">>
\* the JSON value of the dict's entry under key k
JsonField(k, v) ==
    CASE k = "id" -> <<"number", v>>
      [] k = "is_verified" -> JsonBool(v)
      [] k = "avatar_url" -> JsonOpt(v)
      [] OTHER -> <<"string", v>>
\* json.dumps: an object with exactly the keys of the dict
json_dumps(d) == [k \in DOMAIN d |-> JsonField(k, d[k])]
JsonVal(v) ==
    IF v[1] = "null" THEN None
    ELSE IF v[1] = "true" THEN TRUE
    ELSE IF v[1] = "false" THEN FALSE
    ELSE v[2]
\* json.loads: a dict with exactly the keys of the object
json_loads(s) ==
    [k \in DOMAIN s |->
        IF k = "avatar_url"
        THEN (IF s[k][1] = "null" THEN None ELSE Some(s[k][2]))
        ELSE JsonVal(s[k])]

\* a write that keeps the time to live of a key that already exists
redis_setex_KeepsTtl(r, key, expire, value, t) ==
    [k \in DOMAIN r \cup {key} |->
        IF k = key
        THEN [data |-> value,
              expire_at |-> IF key \in DOMAIN r THEN r[key].expire_at
                            ELSE t + Seconds(expire)]
        ELSE r[k]]

\* SETEX key seconds value: overwrite the key and restart its time to live
redis_setex(r, key, expire, value, t) ==
    [k \in DOMAIN r \cup {key} |->
        IF k = key THEN [data |-> value, expire_at |-> t + Seconds(expire)]
        ELSE r[k]]
\* GET key: nil when the key is missing or its time to live has run out
redis_get(r, key, t) ==
    IF key \in DOMAIN r /\ t < r[key].expire_at THEN Some(r[key].data) ELSE None
\* DEL key
redis_delete(r, key) == [k \in DOMAIN r \ {key} |-> r[k]]
\* the keyspace at time t: Redis has dropped the keys whose time to live ran out
redis_expire(r, t) == [k \in {x \in DOMAIN r : t < r[x].expire_at} |-> r[k]]

cache_user(r, user_email, user_data, t) ==
    redis_setex(r, UserKey(user_email), CacheExpireSeconds, json_dumps(user_data), t)
get_cached_user(r, user_email, t) ==
    LET data == redis_get(r, UserKey(user_email), t)
    IN IF IsNone(data) THEN None ELSE Some(json_loads(Val(data)))
delete_cached_user(r, user_email) == redis_delete(r, UserKey(user_email))

\* a snapshot that is the whole row
Snapshot_WholeRow(user) == user

\* the dict handed to cache_user
Snapshot(user) ==
    [id |-> user.id, email |-> user.email,
     is_verified |-> user.is_verified, avatar_url |-> user.avatar_url]

\* ======================================================= Credential Store
\* a row made without its verification token
User_NoToken(id, email, hashed_password, is_verified, verification_token) ==
    [id |-> id, email |-> email, hashed_password |-> hashed_password,
     is_verified |-> is_verified, verification_token |-> None,
     reset_token |-> None, reset_token_expires |-> None, avatar_url |-> None]

User(id, email, hashed_password, is_verified, verification_token) ==
    [id |-> id, email |-> email, hashed_password |-> hashed_password,
     is_verified |-> is_verified, verification_token |-> verification_token,
     reset_token |-> None, reset_token_expires |-> None, avatar_url |-> None]

ByEmail(email) == {u \in users : u.email = email}
ByVerificationToken(token) == {u \in users : u.verification_token = Some(token)}

\* a lookup that takes any row that holds a reset token
ByResetToken_AnyPending(token) == {u \in users : ~IsNone(u.reset_token)}

ByResetToken(token) == {u \in users : u.reset_token = Some(token)}
Replace(old, new) == (users \ {old}) \cup {new}

First(rows) == CHOOSE u \in rows : TRUE

\* ============================================================== responses
\* what a handler leaves behind in the store, the cache and the generators
St(u, nid, r, n) == [users |-> u, next_id |-> nid, redis |-> r, rnd |-> n]
Same == St(users, next_id, redis, rnd)
\* a handler's outcome: the HTTP response, the collaborator calls it made in
\* order, the mail it handed to the mail server, and the state it leaves
Out(status, detail, body, calls, mail, st) ==
    [status |-> status, detail |-> detail, body |-> body,
     calls |-> calls, mail |-> mail, st |-> st]
\* response_model=UserOut
UserOut(user) ==
    [id |-> user.id, email |-> user.email,
     is_verified |-> user.is_verified, avatar_url |-> user.avatar_url]

\* ============================================== Account Lifecycle Manager
\* a duplicate check that never finds the identity
EmailTaken_Never(email) == FALSE

\* routes.py 24-25: the duplicate check
EmailTaken(email) == ByEmail(email) # {}

\* models.py 30-31: the constraints of the users table, a primary key on id
\* and unique=True on email; the token columns carry none
UniqueViolation(rows, row) ==
    \E u \in rows : u.id = row.id \/ u.email = row.email

\* a handler that mails first and commits after: nothing is stored when the
\* mail server refuses
CommittedBeforeMail_MailFirst(st) == Same

\* routes.py 41-46: the commit and the refresh come before the mail is
\* awaited, so the row stays when the mail server refuses
CommittedBeforeMail(st) == st

\* routes.py 32-48, what register does once the duplicate check has passed:
\* the row, the commit under the constraints of the table, and the mail
register_commit(email, password, verification_token) ==
    LET hashed_password == get_password_hash(password, FirstSalt(next_id))
        new_user == User(next_id, email, hashed_password, FALSE,
                         Some(verification_token))
        st == St(users \cup {new_user}, next_id + 1, redis, rnd)
        calls == <<"db.query", "db.commit", "mail.send">>
    IN IF UniqueViolation(users, new_user)
       THEN \* sqlalchemy.exc.IntegrityError escapes the handler
            Out(500, "Internal Server Error", None,
                <<"db.query", "db.commit">>, <<>>, Same)
       ELSE IF mail_up
       THEN Out(201, "", Some(UserOut(new_user)), calls,
                << <<email, verification_token>> >>, st)
       ELSE Out(500, "Internal Server Error", None, calls, <<>>,
                CommittedBeforeMail(st))

\* POST /auth/register, with the value secrets.token_urlsafe returned
register_with(email, password, verification_token) ==
    IF EmailTaken(email)
    THEN Out(409, "Conflict", None, <<"db.query">>, <<>>, Same)
    ELSE register_commit(email, password, verification_token)

\* POST /auth/register
register(email, password) ==
    register_with(email, password, token_urlsafe(<<"verify", next_id>>))

\* a verification that sets the flag and leaves the token in the row
VerifiedRow_KeepsToken(user) == [user EXCEPT !.is_verified = TRUE]

\* a verification that clears the token but leaves the flag
VerifiedRow_KeepsUnverified(user) == [user EXCEPT !.verification_token = None]

\* routes.py 63-64: the row after a successful verification
VerifiedRow(user) ==
    [user EXCEPT !.is_verified = TRUE, !.verification_token = None]

\* GET /auth/verify-email
verify_email(token) ==
    IF ByVerificationToken(token) = {}
    THEN Out(400, "InvalidToken", None, <<"db.query">>, <<>>, Same)
    ELSE
    LET user == First(ByVerificationToken(token)) IN
    IF user.is_verified
    THEN Out(200, "already verified", None, <<"db.query">>, <<>>, Same)
    ELSE Out(200, "verified", None, <<"db.query", "db.commit">>, <<>>,
             St(Replace(user, VerifiedRow(user)), next_id, redis, rnd))

\* a credential check that only looks for the row
BadCredentials_AbsentOnly(found, password) == found = {}

\* routes.py 73: the credential check
BadCredentials(found, password) ==
    found = {} \/ ~verify_password(password, First(found).hashed_password)

\* POST /auth/login
login(username, password) ==
    LET found == ByEmail(username) IN
    IF BadCredentials(found, password)
    THEN Out(401, "InvalidCredentials", None, <<"db.query">>, <<>>, Same)
    ELSE
    LET user == First(found) IN
    IF ~user.is_verified
    THEN Out(403, "NotVerified", None, <<"db.query">>, <<>>, Same)
    ELSE IF ~redis_up
    THEN \* redis.exceptions.ConnectionError escapes the handler
         Out(500, "Internal Server Error", None,
             <<"db.query", "redis.setex">>, <<>>, Same)
    ELSE Out(200, "",
             Some([access_token |->
                      create_access_token([sub |-> Some(user.email)], None, now),
                   refresh_token |->
                      create_refresh_token([sub |-> Some(user.email)], None, now),
                   token_type |-> "bearer"]),
             <<"db.query", "redis.setex">>, <<>>,
             St(users, next_id,
                cache_user(redis, user.email, Snapshot(user), now), rnd))

\* a reset request that takes the mailbox as proven and verifies the account
ResetRequestedRow_Verifies(user, reset_token, t) ==
    [user EXCEPT !.reset_token = Some(reset_token),
                 !.reset_token_expires = Some(t + Hours(ResetTokenHours)),
                 !.is_verified = TRUE,
                 !.verification_token = None]

\* a reset request that makes the account prove its mailbox again
ResetRequestedRow_Reverifies(user, reset_token, t) ==
    [user EXCEPT !.reset_token = Some(reset_token),
                 !.reset_token_expires = Some(t + Hours(ResetTokenHours)),
                 !.is_verified = FALSE,
                 !.verification_token = Some(reset_token)]

\* a reset request that leaves a pending token in place
ResetRequestedRow_KeepsPending(user, reset_token, t) ==
    IF IsNone(user.reset_token)
    THEN [user EXCEPT !.reset_token = Some(reset_token),
                      !.reset_token_expires = Some(t + Hours(ResetTokenHours))]
    ELSE user

\* a reset request that stores the token without an expiry an hour ahead
ResetRequestedRow_ExpiresAtOnce(user, reset_token, t) ==
    [user EXCEPT !.reset_token = Some(reset_token),
                 !.reset_token_expires = Some(t)]

\* routes.py 114-116: the row after a reset request
ResetRequestedRow(user, reset_token, t) ==
    [user EXCEPT !.reset_token = Some(reset_token),
                 !.reset_token_expires = Some(t + Hours(ResetTokenHours))]

\* POST /auth/request-password-reset, with the value secrets.token_urlsafe
\* returned
request_password_reset_with(email, reset_token) ==
    LET generic == "If the email exists, a letter has been sent" IN
    IF ByEmail(email) = {}
    THEN Out(200, generic, None, <<"db.query">>, <<>>, Same)
    ELSE
    LET user == First(ByEmail(email))
        updated == ResetRequestedRow(user, reset_token, now)
        st == St(Replace(user, updated), next_id, redis, rnd + 1)
        calls == <<"db.query", "db.commit", "mail.send">>
    IN IF UniqueViolation(users \ {user}, updated)
       THEN \* sqlalchemy.exc.IntegrityError escapes the handler
            Out(500, "Internal Server Error", None,
                <<"db.query", "db.commit">>, <<>>, Same)
       ELSE IF mail_up
       THEN Out(200, generic, None, calls, << <<email, reset_token>> >>, st)
       ELSE Out(500, "Internal Server Error", None, calls, <<>>, st)

\* POST /auth/request-password-reset
request_password_reset(email) ==
    request_password_reset_with(email, token_urlsafe(<<"reset", rnd + 1>>))

\* an expiry check with the comparison reversed
ResetExpired_Reversed(user, t) == Val(user.reset_token_expires) > t

\* routes.py 138: the expiry check
ResetExpired(user, t) == Val(user.reset_token_expires) < t

\* a consumed reset that sends the account back to verification
ResetConsumedRow_Unverifies(user, new_password) ==
    [user EXCEPT !.hashed_password =
                     get_password_hash(new_password, NextSalt(user.hashed_password)),
                 !.reset_token = None,
                 !.reset_token_expires = None,
                 !.is_verified = FALSE]

\* a consumed reset that clears the token and leaves its expiry in the row
ResetConsumedRow_KeepsExpiry(user, new_password) ==
    [user EXCEPT !.hashed_password =
                     get_password_hash(new_password, NextSalt(user.hashed_password)),
                 !.reset_token = None]

\* a consumed reset that leaves the token and its expiry in the row
ResetConsumedRow_KeepsToken(user, new_password) ==
    [user EXCEPT !.hashed_password =
                     get_password_hash(new_password, NextSalt(user.hashed_password))]

\* a consumed reset that clears the token but keeps the old hash
ResetConsumedRow_KeepsHash(user, new_password) ==
    [user EXCEPT !.reset_token = None, !.reset_token_expires = None]

\* routes.py 145-147: the row after a consumed reset
ResetConsumedRow(user, new_password) ==
    [user EXCEPT !.hashed_password =
                     get_password_hash(new_password, NextSalt(user.hashed_password)),
                 !.reset_token = None,
                 !.reset_token_expires = None]

\* POST /auth/reset-password
reset_password(token, new_password) ==
    IF ByResetToken(token) = {}
    THEN Out(400, "InvalidToken", None, <<"db.query">>, <<>>, Same)
    ELSE
    LET user == First(ByResetToken(token)) IN
    IF ResetExpired(user, now)
    THEN Out(400, "TokenExpired", None, <<"db.query">>, <<>>, Same)
    ELSE
    LET changed == Replace(user, ResetConsumedRow(user, new_password))
        calls == <<"db.query", "db.commit", "redis.delete">>
    IN IF redis_up
       THEN Out(200, "password changed", None, calls, <<>>,
                St(changed, next_id, delete_cached_user(redis, user.email), rnd))
       ELSE \* the new hash is committed before DEL raises
            Out(500, "Internal Server Error", None, calls, <<>>,
                St(changed, next_id, redis, rnd))

\* routes.py 130-142, the first half of reset_password in a worker: the row
\* read through the request's own db session, or the error raised; status 0
\* is a request that goes on to the write
reset_password_query(token) ==
    IF ByResetToken(token) = {}
    THEN [status |-> 400, detail |-> "InvalidToken", user |-> None]
    ELSE
    LET user == First(ByResetToken(token)) IN
    IF ResetExpired(user, now)
    THEN [status |-> 400, detail |-> "TokenExpired", user |-> None]
    ELSE [status |-> 0, detail |-> "", user |-> Some(user)]

\* routes.py 145-153, the second half: UPDATE users SET hashed_password,
\* reset_token, reset_token_expires WHERE id = user.id, with the values
\* computed from the row read before, then the commit and the cache
\* invalidation; the row is not locked and carries no version
reset_password_commit(user, new_password) ==
    LET changed ==
            {IF u.id = user.id
             THEN [u EXCEPT !.hashed_password = ResetConsumedRow(user, new_password).hashed_password,
                            !.reset_token = ResetConsumedRow(user, new_password).reset_token,
                            !.reset_token_expires =
                                ResetConsumedRow(user, new_password).reset_token_expires]
             ELSE u : u \in users}
        calls == <<"db.commit", "redis.delete">>
    IN IF redis_up
       THEN Out(200, "password changed", None, calls, <<>>,
                St(changed, next_id, delete_cached_user(redis, user.email), rnd))
       ELSE Out(500, "Internal Server Error", None, calls, <<>>,
                St(changed, next_id, redis, rnd))

\* ======================================================= Session Resolver
\* a cache hit that goes on to read the row from the store
UserFromCache_ReadsStore(cached_user) == First(ByEmail(cached_user.email))

\* dependencies.py 33-39: the User built from a cached snapshot
UserFromCache(cached_user) ==
    [id |-> cached_user.id, email |-> cached_user.email,
     hashed_password |-> EmptyHash,
     is_verified |-> cached_user.is_verified,
     verification_token |-> None, reset_token |-> None,
     reset_token_expires |-> None,
     avatar_url |-> cached_user.avatar_url]

\* a resolver whose verification check is inverted
Unverified_Inverted(user) == user.is_verified

\* a resolver that never refuses an unverified row
Unverified_Skipped(user) == FALSE

\* dependencies.py 51: the verification check on the row read from the store
Unverified(user) == ~user.is_verified

\* a store hit that returns without writing the cache
FillCache_Skipped(r, email, user, t) == r

\* dependencies.py 58-63: the cache fill after the store read
FillCache(r, email, user, t) == cache_user(r, email, Snapshot(user), t)

\* what get_current_user returns (status 200) or raises; persistent tells a
\* row loaded in the request's db session from a User built from the cache
Resolved(status, detail, user, persistent, calls, st) ==
    [status |-> status, detail |-> detail, user |-> user,
     persistent |-> persistent, calls |-> calls, st |-> st]

get_current_user(token) ==
    LET payload == decode_token(token, now) IN
    IF IsNone(payload)
    THEN Resolved(401, "InvalidToken", None, FALSE, <<"jwt.decode">>, Same)
    ELSE
    LET email == Val(payload).sub IN
    IF IsNone(email)
    THEN Resolved(401, "InvalidToken", None, FALSE, <<"jwt.decode">>, Same)
    ELSE IF ~redis_up
    THEN \* redis.exceptions.ConnectionError escapes the dependency
         Resolved(500, "Internal Server Error", None, FALSE,
                  <<"jwt.decode", "redis.get">>, Same)
    ELSE
    LET cached_user == get_cached_user(redis, Val(email), now) IN
    IF ~IsNone(cached_user)
    THEN Resolved(200, "", Some(UserFromCache(Val(cached_user))), FALSE,
                  <<"jwt.decode", "redis.get">>, Same)
    ELSE IF ByEmail(Val(email)) = {}
    THEN Resolved(401, "AccountNotFound", None, FALSE,
                  <<"jwt.decode", "redis.get", "db.query">>, Same)
    ELSE
    LET user == First(ByEmail(Val(email))) IN
    IF Unverified(user)
    THEN Resolved(403, "NotVerified", None, FALSE,
                  <<"jwt.decode", "redis.get", "db.query">>, Same)
    ELSE Resolved(200, "", Some(user), TRUE,
                  <<"jwt.decode", "redis.get", "db.query", "redis.setex">>,
                  St(users, next_id, FillCache(redis, Val(email), user, now), rnd))

\* GET /auth/me
get_me(token) ==
    LET r == get_current_user(token) IN
    IF r.status # 200
    THEN Out(r.status, r.detail, None, r.calls, <<>>, r.st)
    ELSE Out(200, "", Some(UserOut(Val(r.user))), r.calls, <<>>, r.st)

\* cloudinary_utils.upload_avatar: the secure_url of avatars/user_<public_id>
CloudinaryUrl(public_id) == <<"https://res.cloudinary.com/avatars/user_", public_id>>
\* a type check that lets a PDF through
AllowedContentTypes_WithPdf == {"image/jpeg", "image/png", "image/jpg", "application/pdf"}

\* routes.py 163
AllowedContentTypes == {"image/jpeg", "image/png", "image/jpg"}
MaxAvatarBytes == 5 * 1024 * 1024

\* an upload_avatar that swallows the failure of the image host
UploadFailed_Swallowed(host_ok) == FALSE

\* cloudinary_utils.py 18-32: upload_avatar raises when the uploader raises
UploadFailed(host_ok) == ~host_ok

\* POST /auth/upload-avatar; host_ok: the image host accepts the upload
upload_user_avatar(token, content_type, size, host_ok) ==
    LET r == get_current_user(token) IN
    IF r.status # 200
    THEN Out(r.status, r.detail, None, r.calls, <<>>, r.st)
    ELSE IF content_type \notin AllowedContentTypes
    THEN Out(400, "UnsupportedType", None, r.calls, <<>>, r.st)
    ELSE IF size > MaxAvatarBytes
    THEN Out(400, "TooLarge", None, r.calls \o <<"file.read">>, <<>>, r.st)
    ELSE IF UploadFailed(host_ok)
    THEN Out(500, "avatar upload error", None,
             r.calls \o <<"file.read", "cloudinary.upload">>, <<>>, r.st)
    ELSE
    LET current_user == Val(r.user)
        avatar_url == Some(CloudinaryUrl(current_user.id))
    IN IF ~r.persistent
       THEN \* db.refresh raises InvalidRequestError for a User that is not a
            \* row of the session; the handler turns it into 500
            Out(500, "avatar upload error", None,
                r.calls \o <<"file.read", "cloudinary.upload", "db.commit", "db.refresh">>,
                <<>>, r.st)
       ELSE
       LET updated == [current_user EXCEPT !.avatar_url = avatar_url]
           recached == cache_user(delete_cached_user(r.st.redis, current_user.email),
                                  current_user.email, Snapshot(updated), now)
       IN Out(200, "", Some(UserOut(updated)),
              r.calls \o <<"file.read", "cloudinary.upload", "db.commit", "db.refresh",
                           "redis.delete", "redis.setex">>,
              <<>>,
              St(Replace(current_user, updated), next_id, recached, rnd))


\* ============================================================ Contact Book
\* strings the search looks into are sequences of characters
LowerOf(c) ==
    CASE c = "A" -> "a" [] c = "B" -> "b" [] c = "L" -> "l" [] c = "O" -> "o"
      [] OTHER -> c
lower(s) == [i \in 1..Len(s) |-> LowerOf(s[i])]
Contains(s, q) == \E i \in 0..(Len(s) - Len(q)) : SubSeq(s, i + 1, i + Len(q)) = q
\* column.ilike("%query%"): a substring match that ignores case
ilike(column, query) == Contains(lower(column), lower(query))

\* schemas.ContactCreate after validation
ContactCreate(name, surname, email, phone, birthday, extra) ==
    [name |-> name, surname |-> surname, email |-> email, phone |-> phone,
     birthday |-> birthday, extra |-> extra]
\* Contacts(**contact.dict(), user_id=current_user.id) with the id the insert gives
ContactRow(id, user_id, contact) ==
    [id |-> id, user_id |-> user_id, name |-> contact.name,
     surname |-> contact.surname, email |-> contact.email, phone |-> contact.phone,
     birthday |-> contact.birthday, extra |-> contact.extra]
\* response_model=ContactOut
ContactOut(c) ==
    [id |-> c.id, name |-> c.name, surname |-> c.surname, email |-> c.email,
     phone |-> c.phone, birthday |-> c.birthday, extra |-> c.extra]

\* what a contact handler answers and leaves behind
Reply(status, detail, body, st, rows, nid) ==
    [status |-> status, detail |-> detail, body |-> body, st |-> st,
     contacts |-> rows, next_contact_id |-> nid]
\* the handler is not entered when get_current_user raises
Refused(r) == Reply(r.status, r.detail, None, r.st, contacts, next_contact_id)

\* a filter that leaves the owner out
OwnedBy_AnyOwner(user) == contacts

\* filter(Contacts.user_id == current_user.id)
OwnedBy(user) == {c \in contacts : c.user_id = user.id}

\* GET /contacts/
read_contacts(token) ==
    LET r == get_current_user(token) IN
    IF r.status # 200 THEN Refused(r)
    ELSE Reply(200, "", Some({ContactOut(c) : c \in OwnedBy(Val(r.user))}),
               r.st, contacts, next_contact_id)

\* GET /contacts/{contact_id}
read_contact(token, contact_id) ==
    LET r == get_current_user(token) IN
    IF r.status # 200 THEN Refused(r)
    ELSE
    LET found == {c \in OwnedBy(Val(r.user)) : c.id = contact_id} IN
    IF found = {}
    THEN Reply(404, "ContactNotFound", None, r.st, contacts, next_contact_id)
    ELSE Reply(200, "", Some(ContactOut(CHOOSE c \in found : TRUE)),
               r.st, contacts, next_contact_id)

\* GET /contacts/search/?query=
search_contacts(token, query) ==
    LET r == get_current_user(token) IN
    IF r.status # 200 THEN Refused(r)
    ELSE Reply(200, "",
               Some({ContactOut(c) : c \in
                        {x \in OwnedBy(Val(r.user)) :
                            \/ ilike(x.name, query)
                            \/ ilike(x.surname, query)
                            \/ ilike(x.email, query)}}),
               r.st, contacts, next_contact_id)

\* routes.py 103-106 and 157-161: another contact of the user with the email
DuplicateEmail(user, email, except_id) ==
    \E c \in OwnedBy(user) : c.email = email /\ Some(c.id) # except_id

\* routes.py 103-112, the first half of create_contact in a worker: the
\* duplicate check; status 0 is a request that goes on to the insert
create_contact_check(token, contact) ==
    LET r == get_current_user(token) IN
    IF r.status # 200
    THEN [status |-> r.status, detail |-> r.detail, st |-> r.st, user_id |-> None]
    ELSE IF DuplicateEmail(Val(r.user), contact.email, None)
    THEN [status |-> 400, detail |-> "DuplicateEmail", st |-> r.st, user_id |-> None]
    ELSE [status |-> 0, detail |-> "", st |-> r.st, user_id |-> Some(Val(r.user).id)]

\* routes.py 114-118, the second half: the insert and the commit; the table
\* has no constraint on (user_id, email)
create_contact_insert(st, user_id, contact) ==
    LET db_contact == ContactRow(next_contact_id, user_id, contact) IN
    Reply(201, "", Some(ContactOut(db_contact)), st,
          contacts \cup {db_contact}, next_contact_id + 1)

\* POST /contacts/ served alone
create_contact(token, contact) ==
    LET q == create_contact_check(token, contact) IN
    IF q.status # 0
    THEN Reply(q.status, q.detail, None, q.st, contacts, next_contact_id)
    ELSE create_contact_insert(q.st, Val(q.user_id), contact)

\* contact_update.dict(exclude_unset=True): the fields the request names, each
\* with a value or null
Truthy(contact_update, key) ==
    key \in DOMAIN contact_update /\ ~IsNone(contact_update[key])

\* routes.py 147-166, the first half of update_contact in a worker: the row
\* read through the request's own db session and the duplicate check
update_contact_query(token, contact_id, contact_update) ==
    LET r == get_current_user(token) IN
    IF r.status # 200
    THEN [status |-> r.status, detail |-> r.detail, st |-> r.st, contact |-> None]
    ELSE
    LET found == {c \in OwnedBy(Val(r.user)) : c.id = contact_id} IN
    IF found = {}
    THEN [status |-> 404, detail |-> "ContactNotFound", st |-> r.st, contact |-> None]
    ELSE IF /\ Truthy(contact_update, "email")
            /\ DuplicateEmail(Val(r.user), Val(contact_update["email"]), Some(contact_id))
    THEN [status |-> 400, detail |-> "DuplicateEmail", st |-> r.st, contact |-> None]
    ELSE [status |-> 0, detail |-> "", st |-> r.st,
          contact |-> Some(CHOOSE c \in found : TRUE)]

\* the value setattr gives the column: extra is nullable, the others are not
Assigned(key, value) == IF key = "extra" THEN value ELSE Val(value)

\* a handler that skips the setattr loop
Changes_Nothing(contact, contact_update) ==
    [k \in {} |-> None]

\* routes.py 168-169: setattr for every field of the request; the session
\* marks the attributes whose value differs from the one it loaded, and only
\* those go into the UPDATE
Changes(contact, contact_update) ==
    [k \in {x \in DOMAIN contact_update :
               \/ (x # "extra" /\ IsNone(contact_update[x]))
               \/ (x = "extra" /\ contact_update[x] # contact[x])
               \/ (x # "extra" /\ ~IsNone(contact_update[x])
                               /\ Val(contact_update[x]) # contact[x])}
        |-> contact_update[k]]

\* routes.py 171-173, the second half: UPDATE contacts SET <the changed
\* attributes> WHERE id = contact.id, commit and refresh
update_contact_commit(st, contact_id, changes) ==
    LET current == {c \in contacts : c.id = contact_id}
        nulls == {k \in DOMAIN changes \ {"extra"} : IsNone(changes[k])}
    IN IF current = {} \/ nulls # {}
       THEN \* StaleDataError or InvalidRequestError for a row deleted in the
            \* meantime, IntegrityError for NULL in a NOT NULL column
            Reply(500, "Internal Server Error", None, st, contacts, next_contact_id)
       ELSE
       LET row == CHOOSE c \in current : TRUE
           updated == [k \in DOMAIN row |->
                          IF k \in DOMAIN changes THEN Assigned(k, changes[k])
                          ELSE row[k]]
       IN Reply(200, "", Some(ContactOut(updated)), st,
                (contacts \ {row}) \cup {updated}, next_contact_id)

\* PUT /contacts/{contact_id} served alone
update_contact(token, contact_id, contact_update) ==
    LET q == update_contact_query(token, contact_id, contact_update) IN
    IF q.status # 0
    THEN Reply(q.status, q.detail, None, q.st, contacts, next_contact_id)
    ELSE update_contact_commit(q.st, contact_id, Changes(Val(q.contact), contact_update))

\* DELETE /contacts/{contact_id}
delete_contact(token, contact_id) ==
    LET r == get_current_user(token) IN
    IF r.status # 200 THEN Refused(r)
    ELSE
    LET found == {c \in OwnedBy(Val(r.user)) : c.id = contact_id} IN
    IF found = {}
    THEN Reply(404, "ContactNotFound", None, r.st, contacts, next_contact_id)
    ELSE Reply(200, "contact deleted", None, r.st, contacts \ found, next_contact_id)

\* ================================================================ requests
\* the bearer tokens a client may present at time t: for every subject a token
\* of the codec that is still valid and one that expired a tick ago, a token
\* signed under another key, and a string that is no token
Subjects == {Some(e) : e \in Emails} \cup {None}
GarbageToken == [fmt |-> "garbage", claims |-> [sub |-> None, exp |-> 0], sig |-> <<>>]
ValidTokens(t) ==
    {jwt_encode([sub |-> s, exp |-> t + Minutes(ACCESS_TOKEN_EXPIRE_MINUTES)],
                SECRET_KEY) : s \in Subjects}
ExpiredTokens(t) ==
    {jwt_encode([sub |-> s, exp |-> t - TickMinutes], SECRET_KEY) : s \in Subjects}
ForgedTokens(t) ==
    {jwt_encode([sub |-> Some(e), exp |-> t + Minutes(ACCESS_TOKEN_EXPIRE_MINUTES)],
                "other key") : e \in Emails}
BearerTokens(t) ==
    ValidTokens(t) \cup ExpiredTokens(t) \cup ForgedTokens(t) \cup {GarbageToken}
\* an upload: content type, size in bytes, and whether the image host accepts it
Uploads ==
    {<<"image/jpeg", 10 * 1024, TRUE>>, <<"image/jpeg", 10 * 1024, FALSE>>,
     <<"application/pdf", 10 * 1024, TRUE>>, <<"image/jpeg", 6 * 1024 * 1024, TRUE>>}

IdleCodec == [phase |-> "idle"]

\* the store and the cache as a handler leaves them
CommitStore(st) ==
    /\ users' = st.users
    /\ next_id' = st.next_id
    /\ redis' = st.redis
    /\ rnd' = st.rnd
    /\ UNCHANGED <<env, codec, puts>>

Commit(out) ==
    /\ CommitStore(out.st)
    /\ UNCHANGED <<book, requests>>

Register(email, password) ==
    LET out == register(email, password) IN
    /\ Commit(out)
    /\ registered' =
         IF out.status = 201
         THEN [e \in DOMAIN registered \cup {email} |->
                  IF e = email
                  THEN [password |-> password, token |-> out.mail[1][2]]
                  ELSE registered[e]]
         ELSE registered
    /\ current_pw' =
         IF out.status = 201
         THEN [e \in DOMAIN current_pw \cup {email} |->
                  IF e = email THEN password ELSE current_pw[e]]
         ELSE current_pw
    /\ UNCHANGED <<verified_tokens, reset_issued, consumed_tokens>>

VerifyEmail(token) ==
    LET out == verify_email(token) IN
    /\ Commit(out)
    /\ verified_tokens' =
         IF out.status = 200 THEN verified_tokens \cup {token} ELSE verified_tokens
    /\ UNCHANGED <<registered, current_pw, reset_issued, consumed_tokens>>

Login(username, password) ==
    /\ Commit(login(username, password))
    /\ UNCHANGED history

RequestPasswordReset(email) ==
    LET out == request_password_reset(email) IN
    /\ out.st.rnd <= MaxResets
    /\ Commit(out)
    /\ reset_issued' =
         IF out.mail # <<>>
         THEN [e \in DOMAIN reset_issued \cup {email} |->
                  IF e = email THEN [token |-> out.mail[1][2], at |-> now]
                  ELSE reset_issued[e]]
         ELSE reset_issued
    /\ UNCHANGED <<registered, current_pw, verified_tokens, consumed_tokens>>

ResetPassword(token, new_password) ==
    LET out == reset_password(token, new_password)
        whose == {e \in DOMAIN reset_issued : reset_issued[e].token = token}
    IN
    /\ Commit(out)
    /\ IF out.status = 200
       THEN /\ consumed_tokens' = consumed_tokens \cup {token}
            /\ reset_issued' = [e \in DOMAIN reset_issued \ whose |-> reset_issued[e]]
            /\ current_pw' = [e \in DOMAIN current_pw |->
                                 IF e \in whose THEN new_password ELSE current_pw[e]]
       ELSE UNCHANGED <<consumed_tokens, reset_issued, current_pw>>
    /\ UNCHANGED <<registered, verified_tokens>>

GetMe(token) ==
    /\ Commit(get_me(token))
    /\ UNCHANGED history

UploadAvatar(token, content_type, size, host_ok) ==
    /\ Commit(upload_user_avatar(token, content_type, size, host_ok))
    /\ UNCHANGED history

\* the wall clock advances, and the keys that run out in the meantime go
Tick ==
    /\ now < MaxTicks * TickMinutes
    /\ now' = now + TickMinutes
    /\ redis' = redis_expire(redis, now + TickMinutes)
    /\ UNCHANGED <<users, next_id, rnd, redis_up, mail_up, history, codec, puts, book, requests>>

Init ==
    /\ users = {}
    /\ next_id = 1
    /\ redis = <<>>
    /\ redis_up = TRUE
    /\ mail_up = TRUE
    /\ now = 0
    /\ rnd = 0
    /\ registered = <<>>
    /\ current_pw = <<>>
    /\ verified_tokens = {}
    /\ reset_issued = <<>>
    /\ consumed_tokens = {}
    /\ codec = IdleCodec
    /\ puts = <<>>
    /\ contacts = {}
    /\ next_contact_id = 1
    /\ requests = <<>>

Next ==
    \/ \E e \in Emails, p \in Passwords : Register(e, p)
    \/ \E t \in VerificationTokens \cup {BogusToken} : VerifyEmail(t)
    \/ \E e \in Emails, p \in Passwords : Login(e, p)
    \/ \E e \in Emails : RequestPasswordReset(e)
    \/ \E t \in ResetTokens \cup {BogusToken}, p \in Passwords : ResetPassword(t, p)
    \/ \E token \in BearerTokens(now) : GetMe(token)
    \/ \E token \in ValidTokens(now) \cup {GarbageToken}, f \in Uploads :
          UploadAvatar(token, f[1], f[2], f[3])
    \/ Tick

\* the service with Redis, the mail server and the image host of the request
Spec == Init /\ [][Next]_vars

\* the same service while the Redis server is unreachable
InitCacheDown ==
    /\ users = {}
    /\ next_id = 1
    /\ redis = <<>>
    /\ redis_up = FALSE
    /\ mail_up = TRUE
    /\ now = 0
    /\ rnd = 0
    /\ registered = <<>>
    /\ current_pw = <<>>
    /\ verified_tokens = {}
    /\ reset_issued = <<>>
    /\ consumed_tokens = {}
    /\ codec = IdleCodec
    /\ puts = <<>>
    /\ contacts = {}
    /\ next_contact_id = 1
    /\ requests = <<>>

SpecCacheDown == InitCacheDown /\ [][Next]_vars

\* the same service while the mail server refuses every message
InitMailDown ==
    /\ users = {}
    /\ next_id = 1
    /\ redis = <<>>
    /\ redis_up = TRUE
    /\ mail_up = FALSE
    /\ now = 0
    /\ rnd = 0
    /\ registered = <<>>
    /\ current_pw = <<>>
    /\ verified_tokens = {}
    /\ reset_issued = <<>>
    /\ consumed_tokens = {}
    /\ codec = IdleCodec
    /\ puts = <<>>
    /\ contacts = {}
    /\ next_contact_id = 1
    /\ requests = <<>>

SpecMailDown == InitMailDown /\ [][Next]_vars

\* more than the announced validity of a verification token passes at once
LongWait ==
    /\ now < MaxTicks * Hours(VerificationTokenHours)
    /\ now' = now + Hours(VerificationTokenHours) + TickMinutes
    /\ redis' = redis_expire(redis, now + Hours(VerificationTokenHours) + TickMinutes)
    /\ UNCHANGED <<users, next_id, rnd, redis_up, mail_up, history, codec, puts, book, requests>>

NextLongWait ==
    \/ \E e \in Emails, p \in Passwords : Register(e, p)
    \/ \E t \in VerificationTokens \cup {BogusToken} : VerifyEmail(t)
    \/ \E e \in Emails, p \in Passwords : Login(e, p)
    \/ LongWait

\* registration, verification and login with days between the requests
SpecLongWait == Init /\ [][NextLongWait]_vars

\* the values secrets.token_urlsafe may return when nothing is assumed about
\* it: any value, one it returned before included
TokenValues == VerificationTokens

RegisterDrawing(email, password, verification_token) ==
    /\ Commit(register_with(email, password, verification_token))
    /\ UNCHANGED history

\* a clash of reset tokens takes a draw for each account
RequestPasswordResetDrawing(email, reset_token) ==
    LET out == request_password_reset_with(email, reset_token) IN
    /\ out.st.rnd <= MaxResets + 1
    /\ Commit(out)
    /\ UNCHANGED history

NextTokenClash ==
    \/ \E e \in Emails, p \in Passwords, t \in TokenValues : RegisterDrawing(e, p, t)
    \/ \E e \in Emails, t \in TokenValues : RequestPasswordResetDrawing(e, t)
    \/ Tick

\* the writers of one-time tokens with a generator that may repeat itself
SpecTokenClash == Init /\ [][NextTokenClash]_vars

\* the reset tokens of a service that is asked for one more reset
ResetTokensAgain == {token_urlsafe(<<"reset", n>>) : n \in 1..(MaxResets + 1)}

\* a reset request that may follow an earlier one for the same account
RequestPasswordResetAgain(email) ==
    LET out == request_password_reset(email) IN
    /\ out.st.rnd <= MaxResets + 1
    /\ Commit(out)
    /\ reset_issued' =
         IF out.mail # <<>>
         THEN [e \in DOMAIN reset_issued \cup {email} |->
                  IF e = email THEN [token |-> out.mail[1][2], at |-> now]
                  ELSE reset_issued[e]]
         ELSE reset_issued
    /\ UNCHANGED <<registered, current_pw, verified_tokens, consumed_tokens>>

NextResetAgain ==
    \/ \E e \in Emails, p \in Passwords : Register(e, p)
    \/ \E e \in Emails : RequestPasswordResetAgain(e)
    \/ \E t \in ResetTokensAgain \cup {BogusToken}, p \in Passwords : ResetPassword(t, p)
    \/ Tick

\* registration and the password-reset flow with repeated reset requests
SpecResetAgain == Init /\ [][NextResetAgain]_vars

\* the clients whose requests the server handles at the same time
Clients == {"c1", "c2"}
Answer(c, status, detail) ==
    [k \in DOMAIN requests \cup {c} |->
        IF k = c
        THEN [op |-> requests[c].op, token |-> requests[c].token,
              new_password |-> requests[c].new_password, pc |-> "answered",
              status |-> status, detail |-> detail, user |-> None]
        ELSE requests[k]]

\* a worker takes a reset_password request of client c up to the row it found
ResetQuery(c, token, new_password) ==
    LET q == reset_password_query(token) IN
    /\ c \notin DOMAIN requests
    /\ requests' =
         [k \in DOMAIN requests \cup {c} |->
             IF k = c
             THEN [op |-> "reset_password", token |-> token,
                   new_password |-> new_password,
                   pc |-> IF q.status = 0 THEN "queried" ELSE "answered",
                   status |-> q.status, detail |-> q.detail, user |-> q.user]
             ELSE requests[k]]
    /\ UNCHANGED <<store, env, history, codec, puts, book>>

\* the worker writes, commits, invalidates the cache and answers
ResetCommit(c) ==
    /\ c \in DOMAIN requests
    /\ requests[c].pc = "queried"
    /\ LET out == reset_password_commit(Val(requests[c].user), requests[c].new_password)
           token == requests[c].token
           whose == {e \in DOMAIN reset_issued : reset_issued[e].token = token}
       IN /\ CommitStore(out.st)
          /\ requests' = Answer(c, out.status, out.detail)
          /\ IF out.status = 200
             THEN /\ consumed_tokens' = consumed_tokens \cup {token}
                  /\ reset_issued' =
                       [e \in DOMAIN reset_issued \ whose |-> reset_issued[e]]
                  /\ current_pw' =
                       [e \in DOMAIN current_pw |->
                           IF e = Val(requests[c].user).email
                           THEN requests[c].new_password ELSE current_pw[e]]
             ELSE UNCHANGED <<consumed_tokens, reset_issued, current_pw>>
    /\ UNCHANGED <<registered, verified_tokens, book>>

NextResetRace ==
    \/ \E e \in Emails, p \in Passwords : Register(e, p)
    \/ \E e \in Emails : RequestPasswordReset(e)
    \/ \E c \in Clients, t \in ResetTokens \cup {BogusToken}, p \in Passwords :
          ResetQuery(c, t, p)
    \/ \E c \in Clients : ResetCommit(c)
    \/ Tick

\* reset_password requests of two clients served by two workers at once
SpecResetRace == Init /\ [][NextResetRace]_vars

\* a server process takes a register request of client c through the
\* duplicate check of routes.py 24-29
RegisterQuery(c, email, password) ==
    /\ c \notin DOMAIN requests
    /\ requests' =
         [k \in DOMAIN requests \cup {c} |->
             IF k = c
             THEN [op |-> "register", email |-> email, password |-> password,
                   pc |-> IF EmailTaken(email) THEN "answered" ELSE "queried",
                   status |-> IF EmailTaken(email) THEN 409 ELSE 0]
             ELSE requests[k]]
    /\ UNCHANGED <<store, env, history, codec, puts, book>>

\* the process inserts, commits, mails and answers
RegisterCommit(c) ==
    /\ c \in DOMAIN requests
    /\ requests[c].pc = "queried"
    /\ LET email == requests[c].email
           password == requests[c].password
           out == register_commit(email, password, token_urlsafe(<<"verify", next_id>>))
       IN /\ CommitStore(out.st)
          /\ requests' = [requests EXCEPT ![c].pc = "answered", ![c].status = out.status]
          /\ registered' =
               IF out.status = 201
               THEN [e \in DOMAIN registered \cup {email} |->
                        IF e = email
                        THEN [password |-> password, token |-> out.mail[1][2]]
                        ELSE registered[e]]
               ELSE registered
          /\ current_pw' =
               IF out.status = 201
               THEN [e \in DOMAIN current_pw \cup {email} |->
                        IF e = email THEN password ELSE current_pw[e]]
               ELSE current_pw
    /\ UNCHANGED <<verified_tokens, reset_issued, consumed_tokens, book>>

\* the client reads the answer and may send another request
RegisterAnswered(c) ==
    /\ c \in DOMAIN requests
    /\ requests[c].pc = "answered"
    /\ requests' = [k \in DOMAIN requests \ {c} |-> requests[k]]
    /\ UNCHANGED <<store, env, history, codec, puts, book>>

\* register is a coroutine without an await between the duplicate check and
\* the commit: the requests of one process are served one after the other
\* (Register), those of two processes on one database overlap
NextRegisterRace ==
    \/ \E e \in Emails, p \in Passwords : Register(e, p)
    \/ \E c \in Clients, e \in Emails, p \in Passwords : RegisterQuery(c, e, p)
    \/ \E c \in Clients : RegisterCommit(c)
    \/ \E c \in Clients : RegisterAnswered(c)
    \/ \E t \in VerificationTokens : VerifyEmail(t)

\* register requests of two clients served by two server processes at once
SpecRegisterRace == Init /\ [][NextRegisterRace]_vars

\* ---------------------------------------------- the Token Codec on its own
TokenClasses == {"access", "refresh"}
\* expires_delta: not given, zero, and durations around the defaults
Deltas == {None, Some(0), Some(Minutes(1)), Some(Hours(1))}
Lifetimes == {Minutes(1), Minutes(ACCESS_TOKEN_EXPIRE_MINUTES), Hours(1),
              Days(REFRESH_TOKEN_EXPIRE_DAYS)}
\* how long after issue verify is called: at once, and a minute before, at
\* and a minute after the end of every lifetime
Waits == {0} \cup {l + d : l \in Lifetimes, d \in {-1, 0, 1}}

InitCodec ==
    /\ users = {}
    /\ next_id = 1
    /\ redis = <<>>
    /\ redis_up = TRUE
    /\ mail_up = TRUE
    /\ now \in {0, TickMinutes}
    /\ rnd = 0
    /\ registered = <<>>
    /\ current_pw = <<>>
    /\ verified_tokens = {}
    /\ reset_issued = <<>>
    /\ consumed_tokens = {}
    /\ codec \in [phase : {"input"}, subject : Emails, class : TokenClasses,
                   delta : Deltas]
    /\ puts = <<>>
    /\ contacts = {}
    /\ next_contact_id = 1
    /\ requests = <<>>

\* issue(subject, class, ttl?) at the current time
Issue ==
    /\ codec.phase = "input"
    /\ codec' = [phase |-> "issued", subject |-> codec.subject,
                 class |-> codec.class, delta |-> codec.delta,
                 issued_at |-> now,
                 token |-> IF codec.class = "access"
                           THEN create_access_token([sub |-> Some(codec.subject)],
                                                    codec.delta, now)
                           ELSE create_refresh_token([sub |-> Some(codec.subject)],
                                                     codec.delta, now)]
    /\ UNCHANGED <<store, env, history, puts, book, requests>>

\* verify(token) after waiting w minutes
Verify(w) ==
    /\ codec.phase = "issued"
    /\ now' = now + w
    /\ codec' = [phase |-> "verified", subject |-> codec.subject,
                 class |-> codec.class, delta |-> codec.delta,
                 issued_at |-> codec.issued_at, token |-> codec.token,
                 result |-> decode_token(codec.token, now + w)]
    /\ UNCHANGED <<store, redis_up, mail_up, history, puts, book, requests>>

NextCodec ==
    \/ Issue
    \/ \E w \in Waits : Verify(w)

SpecCodec == InitCodec /\ [][NextCodec]_vars

\* -------------------------------------------- the Identity Cache on its own
\* the snapshots a caller may put for an identity
AccountIds == [e \in Emails |-> IF e = "a@x.com" THEN 1 ELSE 2]
Snapshots(e) ==
    {[id |-> AccountIds[e], email |-> e, is_verified |-> v, avatar_url |-> a] :
        v \in BOOLEAN, a \in {None, Some(CloudinaryUrl(AccountIds[e]))}}

CachePut(e, snap) ==
    /\ redis' = cache_user(redis, e, snap, now)
    /\ puts' = [x \in DOMAIN puts \cup {e} |->
                   IF x = e THEN [snap |-> snap, at |-> now] ELSE puts[x]]
    /\ UNCHANGED <<users, next_id, rnd, env, history, codec, book, requests>>

CacheInvalidate(e) ==
    /\ redis' = delete_cached_user(redis, e)
    /\ puts' = [x \in DOMAIN puts \ {e} |-> puts[x]]
    /\ UNCHANGED <<users, next_id, rnd, env, history, codec, book, requests>>

\* half of the time to live passes
CacheWait ==
    /\ now + Seconds(CacheExpireSeconds) \div 2 <= MaxTicks * TickMinutes
    /\ now' = now + Seconds(CacheExpireSeconds) \div 2
    /\ redis' = redis_expire(redis, now + Seconds(CacheExpireSeconds) \div 2)
    /\ UNCHANGED <<users, next_id, rnd, redis_up, mail_up, history, codec, puts, book, requests>>

NextCache ==
    \/ \E e \in Emails : \E snap \in Snapshots(e) : CachePut(e, snap)
    \/ \E e \in Emails : CacheInvalidate(e)
    \/ CacheWait
    \/ Tick

SpecCache == Init /\ [][NextCache]_vars

\* ------------------------------------------------------------ contact book
\* the requests the contact book is driven with
NameAn == <<"A", "n">>
NameBo == <<"B", "o">>
SurnameLi == <<"L", "i">>
MailAn == <<"a", "n", "@", "x">>
MailBo == <<"b", "o", "@", "x">>
ContactInputs ==
    {ContactCreate(NameAn, SurnameLi, MailAn, "+380501234567", "1990-01-01", None),
     ContactCreate(NameBo, SurnameLi, MailBo, "+380501234567", "1990-01-01", None)}
ContactUpdates ==
    {[email |-> Some(MailAn)], [email |-> Some(MailBo), name |-> Some(NameBo)]}
Queries == {<<"A">>, <<"b", "O">>, <<"@">>, <<"z">>}
ContactIds == 1..MaxContacts
ContactTokens ==
    {jwt_encode([sub |-> Some(e), exp |-> now + Minutes(ACCESS_TOKEN_EXPIRE_MINUTES)],
                SECRET_KEY) : e \in Emails} \cup {GarbageToken}
\* the tokens of the two accounts
OwnerTokens ==
    {jwt_encode([sub |-> Some(e), exp |-> now + Minutes(ACCESS_TOKEN_EXPIRE_MINUTES)],
                SECRET_KEY) : e \in Emails}
InFlight(op) == {k \in DOMAIN requests : requests[k].op = op}
\* a new request goes to a free worker; which one makes no difference
FreeClients ==
    IF Clients \subseteq DOMAIN requests THEN {}
    ELSE {CHOOSE k \in Clients \ DOMAIN requests : TRUE}
Forget(c) == [k \in DOMAIN requests \ {c} |-> requests[k]]

ReadContacts(token) ==
    /\ CommitStore(read_contacts(token).st)
    /\ UNCHANGED <<history, book, requests>>

ReadContact(token, contact_id) ==
    /\ CommitStore(read_contact(token, contact_id).st)
    /\ UNCHANGED <<history, book, requests>>

SearchContacts(token, query) ==
    /\ CommitStore(search_contacts(token, query).st)
    /\ UNCHANGED <<history, book, requests>>

DeleteContact(token, contact_id) ==
    LET out == delete_contact(token, contact_id) IN
    /\ CommitStore(out.st)
    /\ contacts' = out.contacts
    /\ next_contact_id' = out.next_contact_id
    /\ UNCHANGED <<history, requests>>

\* a worker takes a create_contact request of client c through the duplicate
\* check; a request that fails there is answered at once
CreateContactCheck(c, token, contact) ==
    LET q == create_contact_check(token, contact) IN
    /\ c \notin DOMAIN requests
    /\ next_contact_id + Cardinality(InFlight("create_contact")) <= MaxContacts
    /\ CommitStore(q.st)
    /\ requests' =
         IF q.status # 0 THEN requests
         ELSE [k \in DOMAIN requests \cup {c} |->
                  IF k = c
                  THEN [op |-> "create_contact", user_id |-> Val(q.user_id),
                        contact |-> contact]
                  ELSE requests[k]]
    /\ UNCHANGED <<history, book>>

\* the worker inserts, commits and answers
CreateContactInsert(c) ==
    /\ c \in InFlight("create_contact")
    /\ LET out == create_contact_insert(Same, requests[c].user_id, requests[c].contact)
       IN /\ contacts' = out.contacts
          /\ next_contact_id' = out.next_contact_id
    /\ requests' = Forget(c)
    /\ UNCHANGED <<store, env, history, codec, puts>>

\* a worker takes an update_contact request of client c through the query and
\* the duplicate check
UpdateContactQuery(c, token, contact_id, contact_update) ==
    LET q == update_contact_query(token, contact_id, contact_update) IN
    /\ c \notin DOMAIN requests
    /\ CommitStore(q.st)
    /\ requests' =
         IF q.status # 0 THEN requests
         ELSE [k \in DOMAIN requests \cup {c} |->
                  IF k = c
                  THEN [op |-> "update_contact", user_id |-> Val(q.contact).user_id,
                        contact_id |-> contact_id,
                        changes |-> Changes(Val(q.contact), contact_update)]
                  ELSE requests[k]]
    /\ UNCHANGED <<history, book>>

\* the worker writes, commits and answers
UpdateContactCommit(c) ==
    /\ c \in InFlight("update_contact")
    /\ LET out == update_contact_commit(Same, requests[c].contact_id,
                                        requests[c].changes)
       IN /\ contacts' = out.contacts
          /\ next_contact_id' = out.next_contact_id
    /\ requests' = Forget(c)
    /\ UNCHANGED <<store, env, history, codec, puts>>

\* two accounts registered with "secret1" and verified; "a@x.com" has logged
\* in and is in the cache, "b@x.com" has not
InitContacts ==
    /\ users = {User(AccountIds[e], e,
                     get_password_hash("secret1", FirstSalt(AccountIds[e])),
                     TRUE, None) : e \in Emails}
    /\ next_id = Cardinality(Emails) + 1
    /\ redis = cache_user(<<>>, "a@x.com",
                          Snapshot(User(AccountIds["a@x.com"], "a@x.com",
                                        get_password_hash("secret1",
                                                          FirstSalt(AccountIds["a@x.com"])),
                                        TRUE, None)), 0)
    /\ redis_up = TRUE
    /\ mail_up = TRUE
    /\ now = 0
    /\ rnd = 0
    /\ registered = [e \in Emails |->
                       [password |-> "secret1",
                        token |-> token_urlsafe(<<"verify", AccountIds[e]>>)]]
    /\ current_pw = [e \in Emails |-> "secret1"]
    /\ verified_tokens = {token_urlsafe(<<"verify", AccountIds[e]>>) : e \in Emails}
    /\ reset_issued = <<>>
    /\ consumed_tokens = {}
    /\ codec = IdleCodec
    /\ puts = <<>>
    /\ contacts = {}
    /\ next_contact_id = 1
    /\ requests = <<>>

NextContacts ==
    \/ \E token \in ContactTokens : ReadContacts(token)
    \/ \E token \in OwnerTokens, i \in ContactIds : ReadContact(token, i)
    \/ \E token \in OwnerTokens, q \in Queries : SearchContacts(token, q)
    \/ \E token \in OwnerTokens, i \in ContactIds : DeleteContact(token, i)
    \/ \E c \in FreeClients, token \in OwnerTokens, contact \in ContactInputs :
          CreateContactCheck(c, token, contact)
    \/ \E c \in Clients : CreateContactInsert(c)
    \/ \E c \in FreeClients, token \in OwnerTokens, i \in ContactIds,
          contact_update \in ContactUpdates :
          UpdateContactQuery(c, token, i, contact_update)
    \/ \E c \in Clients : UpdateContactCommit(c)

\* the contact book with two accounts and two clients served at once
SpecContacts == InitContacts /\ [][NextContacts]_vars

\* --------------------------------------------- the cache under overlapping
\* a worker thread takes a login request through the credential and the
\* verification check; it holds the row it read
LoginQuery(c, username, password) ==
    /\ c \notin DOMAIN requests
    /\ requests' =
         IF login(username, password).status # 200 THEN requests
         ELSE [k \in DOMAIN requests \cup {c} |->
                  IF k = c THEN [op |-> "login", user |-> First(ByEmail(username))]
                  ELSE requests[k]]
    /\ UNCHANGED <<store, env, history, codec, puts, book>>

\* routes.py 86-91: the thread caches the row it read and answers
LoginCache(c) ==
    /\ c \in InFlight("login")
    /\ redis' = cache_user(redis, requests[c].user.email,
                           Snapshot(requests[c].user), now)
    /\ requests' = Forget(c)
    /\ UNCHANGED <<users, next_id, rnd, env, history, codec, puts, book>>

\* a worker thread takes get_current_user to the row read from the store
\* (dependencies.py 13-56); a request answered from the cache or refused is
\* done at once
ResolveQuery(c, token) ==
    LET r == get_current_user(token) IN
    /\ c \notin DOMAIN requests
    /\ requests' =
         IF r.status # 200 \/ ~r.persistent THEN requests
         ELSE [k \in DOMAIN requests \cup {c} |->
                  IF k = c THEN [op |-> "resolve", user |-> Val(r.user)]
                  ELSE requests[k]]
    /\ UNCHANGED <<store, env, history, codec, puts, book>>

\* dependencies.py 58-65: the thread fills the cache from the row it read
ResolveFill(c) ==
    /\ c \in InFlight("resolve")
    /\ redis' = FillCache(redis, requests[c].user.email, requests[c].user, now)
    /\ requests' = Forget(c)
    /\ UNCHANGED <<users, next_id, rnd, env, history, codec, puts, book>>

\* login and get_current_user run in worker threads, next to each other and
\* next to the event loop that runs upload_user_avatar
NextCacheRace ==
    \/ \E c \in FreeClients, e \in Emails, p \in Passwords : LoginQuery(c, e, p)
    \/ \E c \in Clients : LoginCache(c)
    \/ \E c \in FreeClients, token \in OwnerTokens : ResolveQuery(c, token)
    \/ \E c \in Clients : ResolveFill(c)
    \/ \E e \in Emails : RequestPasswordReset(e)
    \/ \E t \in ResetTokens, p \in Passwords : ResetPassword(t, p)
    \/ \E token \in OwnerTokens, f \in Uploads : UploadAvatar(token, f[1], f[2], f[3])

\* two verified accounts and overlapping requests that read and write the cache
SpecCacheRace == InitContacts /\ [][NextCacheRace]_vars

\* ================================================================== claims
HasAccount(e) == ByEmail(e) # {}
Account(e) == First(ByEmail(e))
Cached(e) == get_cached_user(redis, e, now)
TokenFor(e) == jwt_encode([sub |-> Some(e), exp |-> now + Minutes(ACCESS_TOKEN_EXPIRE_MINUTES)],
                          SECRET_KEY)

\* C1, as claimed: after a successful Register(e, p), Login(e, p) answers 403
\* NotVerified until VerifyEmail has succeeded with the issued token, and
\* succeeds with tokens ever after.
C1_LoginWithRegisteredPassword ==
    \A e \in DOMAIN registered :
        LET out == login(e, registered[e].password) IN
        IF registered[e].token \in verified_tokens
        THEN out.status = 200 /\ ~IsNone(out.body)
        ELSE out.status = 403 /\ out.detail = "NotVerified" /\ IsNone(out.body)

\* C1, amended: the same for Login with the account's current password: the
\* registered one until a ConsumePasswordReset has replaced it.
C1_LoginGatedByVerification ==
    \A e \in DOMAIN registered :
        LET out == login(e, current_pw[e]) IN
        IF registered[e].token \in verified_tokens
        THEN /\ out.status = 200
             /\ ~IsNone(out.body)
             /\ Val(out.body).access_token.claims.sub = Some(e)
        ELSE out.status = 403 /\ out.detail = "NotVerified" /\ IsNone(out.body)

\* a verified account that has logged in (its snapshot is cached) and logs in again
C1_Witness ==
    \E e \in DOMAIN registered :
        /\ registered[e].token \in verified_tokens
        /\ ~IsNone(Cached(e))
        /\ login(e, current_pw[e]).status = 200

\* C2: VerifyEmail called again with a token it has succeeded with answers
\* 200 "already verified" and changes nothing.
C2_VerifyEmailIdempotent ==
    \A e \in DOMAIN registered :
        registered[e].token \in verified_tokens =>
            LET out == verify_email(registered[e].token) IN
            /\ out.status = 200
            /\ out.detail = "already verified"
            /\ out.st = Same

\* C3: a reset token that ConsumePasswordReset has succeeded with is refused
\* with InvalidToken ever after, whatever the new password, and the refused
\* call leaves every row (so every password hash) as it was.
C3_ResetTokenSingleUse ==
    \A t \in consumed_tokens : \A p \in Passwords :
        LET out == reset_password(t, p) IN
        /\ out.status = 400
        /\ out.detail = "InvalidToken"
        /\ out.st.users = users

\* a token was consumed, the password it set is in force, and a replay is refused
C3_Witness ==
    \E t \in consumed_tokens : \E e \in DOMAIN current_pw :
        /\ current_pw[e] # registered[e].password
        /\ verify_password(current_pw[e], Account(e).hashed_password)
        /\ reset_password(t, registered[e].password).detail = "InvalidToken"

\* C4: ConsumePasswordReset with the outstanding reset token of an account,
\* more than 1 hour after the request that issued it, is refused with
\* TokenExpired and leaves every row as it was.
C4_ExpiredResetTokenRefused ==
    \A e \in DOMAIN reset_issued :
        now > reset_issued[e].at + Hours(1) =>
            \A p \in Passwords :
                LET out == reset_password(reset_issued[e].token, p) IN
                /\ out.status = 400
                /\ out.detail = "TokenExpired"
                /\ out.st.users = users

\* an account holds a token issued two hours ago and the call is refused as expired
C4_Witness ==
    \E e \in DOMAIN reset_issued :
        /\ now > reset_issued[e].at + Hours(1)
        /\ Account(e).reset_token = Some(reset_issued[e].token)
        /\ reset_password(reset_issued[e].token, "secret2").detail = "TokenExpired"

\* C5: with Redis unreachable, Login with the current password of a verified
\* account still returns tokens, and the Session Resolver still returns the
\* stored verified account for a valid access token.
C5_CorrectWithoutCache ==
    ~redis_up =>
        \A e \in Emails :
            (HasAccount(e) /\ Account(e).is_verified) =>
                /\ \A p \in Passwords :
                       verify_password(p, Account(e).hashed_password) =>
                           login(e, p).status = 200 /\ ~IsNone(login(e, p).body)
                /\ get_current_user(TokenFor(e)).status = 200
                /\ get_current_user(TokenFor(e)).user = Some(Account(e))

C7_CacheRoundTrip ==
    \A e \in Emails :
        Cached(e) = IF e \in DOMAIN puts /\ now < puts[e].at + Hours(1)
                    THEN Some(puts[e].snap) ELSE None

\* an identity was put again half an hour after its first put and is still
\* served an hour after the first; the other identity's entry, put an hour
\* ago, has run out
C7_Witness ==
    \E e \in Emails, o \in Emails :
        /\ e # o
        /\ e \in DOMAIN puts /\ puts[e].at > 0 /\ puts[e].at < now
        /\ ~IsNone(Cached(e))
        /\ ~IsNone(Val(Cached(e)).avatar_url)
        /\ o \in DOMAIN puts /\ now >= puts[o].at + Hours(1) /\ IsNone(Cached(o))

\* C8: resolve answers 401 InvalidToken, before any cache or store read, for
\* a token that is malformed, signed under another key, expired, or without a
\* subject; on a cache miss it answers AccountNotFound when the store has no
\* row for the subject and 403 NotVerified when the row is unverified; it
\* returns no account in any of these cases.
C8_ResolverFailureReasons ==
    /\ \A token \in ExpiredTokens(now) \cup ForgedTokens(now) \cup {GarbageToken}
                    \cup {jwt_encode([sub |-> None, exp |-> now], SECRET_KEY)} :
           LET r == get_current_user(token) IN
           /\ r.status = 401 /\ r.detail = "InvalidToken"
           /\ IsNone(r.user) /\ r.calls = <<"jwt.decode">> /\ r.st = Same
    /\ \A e \in Emails :
           LET r == get_current_user(TokenFor(e)) IN
           IsNone(Cached(e)) =>
               /\ ~HasAccount(e) =>
                      /\ r.detail = "AccountNotFound" /\ IsNone(r.user)
                      /\ r.calls = <<"jwt.decode", "redis.get", "db.query">>
               /\ (HasAccount(e) /\ ~Account(e).is_verified) =>
                      /\ r.status = 403 /\ r.detail = "NotVerified" /\ IsNone(r.user)
                      /\ r.calls = <<"jwt.decode", "redis.get", "db.query">>

\* one identity has no row and the other an unverified row, neither is cached,
\* and the resolver names the two reasons
C8_Witness ==
    \E e \in Emails, o \in Emails :
        /\ ~HasAccount(e) /\ IsNone(Cached(e))
        /\ get_current_user(TokenFor(e)).detail = "AccountNotFound"
        /\ HasAccount(o) /\ ~Account(o).is_verified /\ IsNone(Cached(o))
        /\ get_current_user(TokenFor(o)).detail = "NotVerified"

\* C9: with a valid token and a snapshot cached for its subject, resolve
\* returns the account made of the snapshot's id, identity, verified flag and
\* image reference with an empty password hash, whatever the store holds, and
\* neither reads the store nor writes anything.
C9_CacheHitFromSnapshotOnly ==
    \A e \in Emails :
        ~IsNone(Cached(e)) =>
            LET r == get_current_user(TokenFor(e))
                snap == Val(Cached(e))
            IN /\ r.status = 200
               /\ r.user = Some([id |-> snap.id, email |-> snap.email,
                                 hashed_password |-> EmptyHash,
                                 is_verified |-> snap.is_verified,
                                 verification_token |-> None, reset_token |-> None,
                                 reset_token_expires |-> None,
                                 avatar_url |-> snap.avatar_url])
               /\ r.calls = <<"jwt.decode", "redis.get">>
               /\ r.st = Same

\* the stored row has changed since it was cached (a reset token was issued for
\* it) and the resolver still answers from the snapshot
C9_Witness ==
    \E e \in DOMAIN reset_issued :
        /\ ~IsNone(Cached(e))
        /\ Account(e).reset_token = Some(reset_issued[e].token)
        /\ get_current_user(TokenFor(e)).status = 200
        /\ Val(get_current_user(TokenFor(e)).user) # Account(e)

\* C10: with a valid token, no snapshot cached for its subject and a verified
\* row in the store, resolve returns that row and leaves in the cache a
\* snapshot with the row's id, identity, verified flag and image reference,
\* written after the store read; the store and the other identities' entries
\* are as before.
C10_ReadThroughFill ==
    \A e \in Emails :
        (IsNone(Cached(e)) /\ HasAccount(e) /\ Account(e).is_verified) =>
            LET r == get_current_user(TokenFor(e))
                row == Account(e)
            IN /\ r.status = 200
               /\ r.user = Some(row)
               /\ get_cached_user(r.st.redis, e, now) =
                      Some([id |-> row.id, email |-> row.email,
                            is_verified |-> row.is_verified,
                            avatar_url |-> row.avatar_url])
               /\ r.calls = <<"jwt.decode", "redis.get", "db.query", "redis.setex">>
               /\ r.st.users = users
               /\ \A o \in Emails \ {e} :
                      get_cached_user(r.st.redis, o, now) = Cached(o)

\* the entry that an upload wrote for a verified account is gone (run out or
\* invalidated) and the resolver fills the cache again from the store
C10_Witness ==
    \E e \in Emails :
        /\ HasAccount(e) /\ Account(e).is_verified
        /\ ~IsNone(Account(e).avatar_url)
        /\ UserKey(e) \notin DOMAIN redis /\ IsNone(Cached(e))
        /\ ~IsNone(get_cached_user(get_current_user(TokenFor(e)).st.redis, e, now))

C12_LoginSuccess ==
    \A e \in Emails : \A p \in Passwords :
        (/\ HasAccount(e)
         /\ Account(e).is_verified
         /\ verify_password(p, Account(e).hashed_password)) =>
            LET out == login(e, p)
                row == Account(e)
            IN /\ out.status = 200
               /\ ~IsNone(out.body)
               /\ Val(out.body).access_token # Val(out.body).refresh_token
               /\ \A tok \in {Val(out.body).access_token, Val(out.body).refresh_token} :
                      /\ ~IsNone(decode_token(tok, now))
                      /\ Val(decode_token(tok, now)).sub = Some(e)
               /\ get_cached_user(out.st.redis, e, now) =
                      Some([id |-> row.id, email |-> row.email,
                            is_verified |-> row.is_verified,
                            avatar_url |-> row.avatar_url])
               /\ out.st.users = users

\* a verified account with an image whose cache entry has run out logs in, and
\* the login puts a snapshot with that image back
C12_Witness ==
    \E e \in DOMAIN current_pw :
        /\ HasAccount(e) /\ Account(e).is_verified
        /\ ~IsNone(Account(e).avatar_url)
        /\ IsNone(Cached(e))
        /\ login(e, current_pw[e]).status = 200
        /\ Val(get_cached_user(login(e, current_pw[e]).st.redis, e, now)).avatar_url
               = Account(e).avatar_url

\* C13: Register with an identity that already has an account answers 409
\* Conflict, sends no mail, and leaves every row, the key counter and the
\* cache as they were: the existing account keeps its hash, verification
\* state and tokens, and no row is added.
C13_RegisterConflict ==
    \A e \in Emails : \A p \in Passwords :
        (\E u \in users : u.email = e) =>
            LET out == register(e, p) IN
            /\ out.status = 409
            /\ out.detail = "Conflict"
            /\ IsNone(out.body)
            /\ out.mail = <<>>
            /\ out.st = Same

\* a verified account holding a reset token is registered again with another
\* password and the call is refused
C13_Witness ==
    \E e \in DOMAIN reset_issued : \E p \in Passwords :
        /\ HasAccount(e) /\ Account(e).is_verified
        /\ ~IsNone(Account(e).reset_token)
        /\ ~verify_password(p, Account(e).hashed_password)
        /\ register(e, p).status = 409

\* C14: Register with an identity that has no account answers 201, adds
\* exactly one row (unverified, holding a verification token no other row
\* holds, with no reset token, and a hash that verifies the password), hands
\* the mail server exactly one message, addressed to the identity and
\* carrying that token, and returns the account with is_verified false and
\* no secret field.
C14_RegisterCreates ==
    \A e \in Emails : \A p \in Passwords :
        ~(\E u \in users : u.email = e) =>
            LET out == register(e, p)
                added == out.st.users \ users
            IN /\ out.status = 201
               /\ users \subseteq out.st.users
               /\ Cardinality(added) = 1
               /\ \A row \in added :
                      /\ row.email = e
                      /\ ~row.is_verified
                      /\ ~IsNone(row.verification_token)
                      /\ \A u \in users : u.verification_token # row.verification_token
                      /\ IsNone(row.reset_token) /\ IsNone(row.reset_token_expires)
                      /\ verify_password(p, row.hashed_password)
                      /\ out.mail = << <<e, Val(row.verification_token)>> >>
                      /\ out.body = Some([id |-> row.id, email |-> e,
                                          is_verified |-> FALSE, avatar_url |-> None])
               /\ out.st.redis = redis

\* a second identity registers while the first account still holds its own
\* verification token
C14_Witness ==
    \E e \in Emails, o \in Emails :
        /\ HasAccount(o) /\ ~IsNone(Account(o).verification_token)
        /\ ~HasAccount(e)
        /\ register(e, "secret2").status = 201
        /\ Cardinality(register(e, "secret2").st.users) = 2

\* C15: RequestPasswordReset answers an identity that has an account exactly
\* as it answers one that has none (status, message and body), also while
\* the mail server refuses messages.
C15_ResetResponseUniform ==
    \A e \in Emails, o \in Emails :
        (HasAccount(e) /\ ~HasAccount(o)) =>
            LET found == request_password_reset(e)
                absent == request_password_reset(o)
            IN /\ found.status = absent.status
               /\ found.detail = absent.detail
               /\ found.body = absent.body

\* C16: RequestPasswordReset for an identity with an account stores in its
\* row a reset token no row held before, with expiry = request time + 1
\* hour, hands the mail server exactly one message, addressed to the
\* identity and carrying that token, and changes nothing else: the row's
\* other fields (hash, verification state and token, image), the other rows
\* and the cache are as before.  For an identity without an account it
\* sends nothing and changes nothing.
C16_ResetRequestEffects ==
    \A e \in Emails :
        LET out == request_password_reset(e) IN
        IF HasAccount(e)
        THEN LET row == Account(e)
                 after == out.st.users \ users
             IN /\ Cardinality(after) = 1
                /\ out.st.users \ after = users \ {row}
                /\ \A new \in after :
                       /\ ~IsNone(new.reset_token)
                       /\ \A u \in users : u.reset_token # new.reset_token
                       /\ new.reset_token_expires = Some(now + 60)
                       /\ new = [row EXCEPT !.reset_token = new.reset_token,
                                            !.reset_token_expires = new.reset_token_expires]
                       /\ out.mail = << <<e, Val(new.reset_token)>> >>
                /\ out.st.redis = redis
                /\ out.st.next_id = next_id
        ELSE /\ out.mail = <<>>
             /\ out.st = Same

\* a verified, cached account asks for a reset while the other identity has no
\* account: one gets a token and a message, the other nothing
C16_Witness ==
    \E e \in Emails, o \in Emails :
        /\ HasAccount(e) /\ Account(e).is_verified /\ ~IsNone(Cached(e))
        /\ IsNone(Account(e).reset_token)
        /\ request_password_reset(e).mail # <<>>
        /\ ~HasAccount(o)
        /\ request_password_reset(o).mail = <<>>

\* a step in which ConsumePasswordReset succeeds with token t for the account
\* of e, replacing the password old by new
ResetConsumedStep(t, e, old, new) ==
    /\ t \notin consumed_tokens
    /\ t \in consumed_tokens'
    /\ HasAccount(e)
    /\ Account(e).reset_token = Some(t)
    /\ ~ResetExpired(Account(e), now)
    /\ current_pw[e] = old
    /\ current_pw'[e] = new

\* what holds when the call has returned: the new password passes the
\* credential check, the row holds neither reset token nor expiry, and the
\* cache has no entry for the identity
ResetConsumedEffects(e, new) ==
    /\ (~BadCredentials(ByEmail(e), new))'
    /\ (login(e, new).status \in {200, 403})'
    /\ IsNone(Account(e).reset_token)'
    /\ IsNone(Account(e).reset_token_expires)'
    /\ IsNone(Cached(e))'
    /\ (UserKey(e) \notin DOMAIN redis)'

\* C17, as claimed: after a successful ConsumePasswordReset the new password
\* passes the credential check, Login with the old password is refused with
\* InvalidCredentials, token and expiry are cleared and the identity has no
\* cache entry.
C17_ResetReplacesPassword ==
    [][\A t \in ResetTokens, e \in Emails, old \in Passwords, new \in Passwords :
          ResetConsumedStep(t, e, old, new) =>
              /\ ResetConsumedEffects(e, new)
              /\ (login(e, old).status = 401)'
              /\ (login(e, old).detail = "InvalidCredentials")']_vars

\* C17, amended: the same, with Login with the old password refused when the
\* new password is not the old one.
C17_ResetReplacesPasswordIfNew ==
    [][\A t \in ResetTokens, e \in Emails, old \in Passwords, new \in Passwords :
          ResetConsumedStep(t, e, old, new) =>
              /\ ResetConsumedEffects(e, new)
              /\ new # old =>
                     /\ (login(e, old).status = 401)'
                     /\ (login(e, old).detail = "InvalidCredentials")']_vars

\* a verified account whose password a reset has replaced: the new password
\* logs in, the registered one is refused, and nothing is cached for it
C17_Witness ==
    \E e \in DOMAIN current_pw :
        /\ consumed_tokens # {}
        /\ current_pw[e] # registered[e].password
        /\ Account(e).is_verified
        /\ IsNone(Account(e).reset_token)
        /\ UserKey(e) \notin DOMAIN redis
        /\ login(e, current_pw[e]).status = 200
        /\ login(e, registered[e].password).detail = "InvalidCredentials"

\* the upload for the account of e answers 200 with the image host's
\* reference, and the stored row and the cached snapshot both hold it
UploadStoresImage(e, content_type, size) ==
    LET out == upload_user_avatar(TokenFor(e), content_type, size, TRUE)
        ref == Some(CloudinaryUrl(Account(e).id))
    IN /\ out.status = 200
       /\ Val(out.body).avatar_url = ref
       /\ \A u \in out.st.users : u.email = e => u.avatar_url = ref
       /\ ~IsNone(get_cached_user(out.st.redis, e, now))
       /\ Val(get_cached_user(out.st.redis, e, now)).avatar_url = ref

\* C18: for an account the Session Resolver authenticates, from the cache or
\* from the store, an upload of a supported type of at most 5 MiB that the
\* image host accepts answers 200 and leaves the returned reference in the
\* stored row and in the cached snapshot.
C18_UploadSucceeds ==
    \A e \in Emails : \A content_type \in AllowedContentTypes :
        \A size \in {10 * 1024, 5 * 1024 * 1024} :
            (HasAccount(e) /\ get_current_user(TokenFor(e)).status = 200) =>
                UploadStoresImage(e, content_type, size)

\* C19: for an authenticated account, an upload whose content type is not
\* JPEG/PNG is answered 400 whatever its size, before the payload is read;
\* one of a supported type with more than 5 MiB is answered 400 after the
\* read; in both cases the image host is not called and the store and the
\* cache are as the Session Resolver left them.
C19_UploadValidation ==
    \A e \in Emails :
        LET r == get_current_user(TokenFor(e)) IN
        r.status = 200 =>
            \A size \in {10 * 1024, 5 * 1024 * 1024 + 1} :
            \A host_ok \in BOOLEAN :
                /\ \A content_type \in {"application/pdf", "image/gif"} :
                       LET out == upload_user_avatar(TokenFor(e), content_type, size, host_ok)
                       IN /\ out.status = 400
                          /\ out.detail = "UnsupportedType"
                          /\ out.calls = r.calls
                          /\ out.st = r.st
                          /\ out.st.users = users
                /\ \A content_type \in {"image/jpeg", "image/png", "image/jpg"} :
                       size > 5 * 1024 * 1024 =>
                           LET out == upload_user_avatar(TokenFor(e), content_type, size, host_ok)
                           IN /\ out.status = 400
                              /\ out.detail = "TooLarge"
                              /\ out.calls = r.calls \o <<"file.read">>
                              /\ out.st = r.st
                              /\ out.st.users = users

\* an account that holds an image already is authenticated from the store; a
\* 6 MiB PDF is refused for its type, a 6 MiB JPEG for its size, and the
\* stored image stays
C19_Witness ==
    \E e \in Emails :
        /\ HasAccount(e) /\ ~IsNone(Account(e).avatar_url)
        /\ get_current_user(TokenFor(e)).persistent
        /\ upload_user_avatar(TokenFor(e), "application/pdf", 6 * 1024 * 1024, TRUE).detail
               = "UnsupportedType"
        /\ upload_user_avatar(TokenFor(e), "image/jpeg", 6 * 1024 * 1024, TRUE).detail
               = "TooLarge"

\* C20: in every reachable state every entry of the cache is a JSON object
\* with exactly the keys id, email, is_verified and avatar_url, holding a
\* number, an identity, a boolean and an image reference or null: no
\* password hash and no token.
C20_NoSecretInCache ==
    \A key \in DOMAIN redis :
        LET data == redis[key].data IN
        /\ DOMAIN data = {"id", "email", "is_verified", "avatar_url"}
        /\ DOMAIN json_loads(data) = {"id", "email", "is_verified", "avatar_url"}
        /\ data["id"][1] = "number" /\ data["id"][2] \in 1..Cardinality(Emails)
        /\ data["email"][1] = "string" /\ data["email"][2] \in Emails
        /\ data["is_verified"] \in {<<"true">>, <<"false">>}
        /\ \/ data["avatar_url"] = <<"null">>
           \/ /\ data["avatar_url"][1] = "string"
              /\ data["avatar_url"][2] = CloudinaryUrl(data["id"][2])

\* both accounts hold a password hash and are cached, one with the image an
\* upload stored, one without an image
C20_Witness ==
    \E e \in Emails, o \in Emails :
        /\ UserKey(e) \in DOMAIN redis /\ UserKey(o) \in DOMAIN redis
        /\ redis[UserKey(e)].data["avatar_url"] # <<"null">>
        /\ redis[UserKey(o)].data["avatar_url"] = <<"null">>
        /\ HasAccount(e) /\ HasAccount(o)
        /\ ~IsNone(Account(o).reset_token)

\* C21: the tokens Login returns carry their class, and the refresh token is
\* not accepted as a bearer token: the Session Resolver, and with it GET
\* /auth/me, refuses it.
C21_RefreshTokenRefused ==
    \A e \in Emails : \A p \in Passwords :
        LET out == login(e, p) IN
        out.status = 200 =>
            /\ "class" \in DOMAIN Val(out.body).access_token.claims
            /\ "class" \in DOMAIN Val(out.body).refresh_token.claims
            /\ get_current_user(Val(out.body).refresh_token).status # 200
            /\ get_me(Val(out.body).refresh_token).status # 200

\* C24: VerifyEmail with a token no account holds fails with InvalidToken and
\* changes nothing; with the token of an unverified account it sets that
\* account verified, clears its verification token and touches no other row.
\* In every reachable state a verified account holds no verification token and
\* an unverified one holds the token Register gave it.
C24_VerifyEmailTransitions ==
    /\ \A t \in VerificationTokens \cup {BogusToken} :
          LET out == verify_email(t)
              held == ByVerificationToken(t)
          IN IF held = {}
             THEN out.status = 400 /\ out.detail = "InvalidToken" /\ out.st = Same
             ELSE \A user \in held :
                     ~user.is_verified =>
                        /\ out.status = 200
                        /\ \E after \in out.st.users :
                              /\ after.id = user.id
                              /\ after.is_verified
                              /\ after.verification_token = None
                              /\ out.st.users \ {after} = users \ {user}
                        /\ out.st.redis = redis
    /\ \A user \in users :
          IF user.is_verified
          THEN user.verification_token = None
          ELSE /\ user.verification_token # None
               /\ user.email \in DOMAIN registered =>
                     user.verification_token = Some(registered[user.email].token)

C24_Witness ==
    /\ \E user \in users : user.is_verified
    /\ \E user \in users : ~user.is_verified /\ user.verification_token # None
    /\ verified_tokens # {}

\* C25 (as stated): after any reset_password call that finds the token,
\* whether it succeeds or fails with TokenExpired, the account holds neither a
\* reset token nor an expiry; and the token is set exactly when the expiry is.
C25_ResetTokenClearedWhenFound ==
    /\ \A t \in ResetTokens : \A p \in Passwords :
          \A user \in ByResetToken(t) :
             LET out == reset_password(t, p) IN
             \A after \in out.st.users :
                after.id = user.id =>
                   after.reset_token = None /\ after.reset_token_expires = None
    /\ \A user \in users :
          user.reset_token = None <=> user.reset_token_expires = None

\* C25 (amended): a reset_password call that succeeds leaves the account with
\* neither a reset token nor an expiry; one that fails with TokenExpired
\* leaves the row as it was, token and expiry still set; and in every
\* reachable state the token is set exactly when the expiry is.
C25_ResetTokenClearedOnSuccess ==
    /\ \A t \in ResetTokens : \A p \in Passwords :
          \A user \in ByResetToken(t) :
             LET out == reset_password(t, p) IN
             IF ResetExpired(user, now)
             THEN /\ out.status = 400 /\ out.detail = "TokenExpired"
                  /\ out.st = Same
                  /\ user.reset_token = Some(t)
                  /\ user.reset_token_expires # None
             ELSE /\ out.status = 200
                  /\ \E after \in out.st.users :
                        /\ after.id = user.id
                        /\ after.reset_token = None
                        /\ after.reset_token_expires = None
                        /\ out.st.users \ {after} = users \ {user}
    /\ \A user \in users :
          user.reset_token = None <=> user.reset_token_expires = None

C25_Witness ==
    \E user \in users :
        /\ user.reset_token # None
        /\ ResetExpired(user, now)
        /\ reset_password(Val(user.reset_token), "secret2").detail = "TokenExpired"

\* C28: every entry of the cache was written for an account that is verified
\* in the store: in every reachable state each cached snapshot has its
\* verified flag true and belongs to a verified row, and each of the three
\* writers (login, the resolver's store-hit path, the avatar upload) leaves
\* only such entries behind.
VerifiedEntries(r) ==
    \A key \in DOMAIN r :
        LET snap == json_loads(r[key].data) IN
        /\ snap.is_verified = TRUE
        /\ \E user \in users : user.email = snap.email /\ user.is_verified

C28_CachedAccountsVerified ==
    /\ VerifiedEntries(redis)
    /\ \A e \in Emails : \A p \in Passwords : VerifiedEntries(login(e, p).st.redis)
    /\ \A token \in ValidTokens(now) :
          /\ VerifiedEntries(get_current_user(token).st.redis)
          /\ VerifiedEntries(upload_user_avatar(token, "image/jpeg", 10 * 1024, TRUE).st.redis)

\* one account is cached with the image an upload stored while the other is
\* registered, unverified and absent from the cache
C28_Witness ==
    \E e \in Emails, o \in Emails :
        /\ UserKey(e) \in DOMAIN redis
        /\ redis[UserKey(e)].data["avatar_url"] # <<"null">>
        /\ HasAccount(o) /\ ~Account(o).is_verified
        /\ UserKey(o) \notin DOMAIN redis
        /\ get_current_user(TokenFor(o)).status = 403

\* C29: the Session Resolver never writes the store, and writes the cache
\* only when it ends in a store hit: a token that is expired, forged,
\* malformed or without subject ends in InvalidToken, a subject with no row in
\* AccountNotFound, an unverified row in NotVerified, a cached subject in a
\* cache hit, and all of these leave the store and the cache as they were.
C29_ResolverReadOnly ==
    \A token \in BearerTokens(now) :
        LET r == get_current_user(token)
            sub == token.claims.sub
        IN
        /\ r.st.users = users /\ r.st.next_id = next_id /\ r.st.rnd = rnd
        /\ (r.status # 200 \/ ~r.persistent) => r.st = Same
        /\ token \notin ValidTokens(now) \/ IsNone(sub) =>
              r.detail = "InvalidToken" /\ r.st = Same
        /\ token \in ValidTokens(now) /\ ~IsNone(sub) =>
              IF ~IsNone(Cached(Val(sub)))
              THEN r.status = 200 /\ ~r.persistent /\ r.st = Same
              ELSE IF ~HasAccount(Val(sub))
              THEN r.detail = "AccountNotFound" /\ r.st = Same
              ELSE IF ~Account(Val(sub)).is_verified
              THEN r.detail = "NotVerified" /\ r.st = Same
              ELSE r.status = 200 /\ r.persistent
                   /\ r.st.redis = cache_user(redis, Val(sub),
                                              Snapshot(Account(Val(sub))), now)

\* one account is cached and resolves by a cache hit, the other is registered
\* and unverified and ends in NotVerified, and a presented token ends in
\* InvalidToken
C29_Witness ==
    \E e \in Emails, o \in Emails :
        /\ ~IsNone(Cached(e))
        /\ get_current_user(TokenFor(e)).status = 200
        /\ ~get_current_user(TokenFor(e)).persistent
        /\ HasAccount(o) /\ get_current_user(TokenFor(o)).detail = "NotVerified"
        /\ \E token \in BearerTokens(now) :
              get_current_user(token).detail = "InvalidToken"

\* C30: the verification token is valid for 24 hours: once more than 24 hours
\* have passed since a token was issued, verify_email rejects it. Every token
\* a row holds before a step that takes more than 24 hours was issued more
\* than 24 hours before the state after the step.
C30_VerificationTokenExpires ==
    [][\A t \in VerificationTokens :
          (now' > now + Hours(VerificationTokenHours) /\ ByVerificationToken(t) # {})
              => (verify_email(t).status = 400)']_vars

\* C27: the store enforces the uniqueness of one-time tokens: whatever values
\* the token generator returns, no two accounts hold the same verification
\* token and no two hold the same reset token, and register and
\* request_password_reset fail without a write when the drawn token is
\* already held by another account.
C27_OneTimeTokensUnique ==
    /\ \A u \in users, v \in users :
          u.id # v.id =>
             /\ u.verification_token = None \/ u.verification_token # v.verification_token
             /\ u.reset_token = None \/ u.reset_token # v.reset_token
    /\ \A e \in Emails, p \in Passwords, t \in TokenValues :
          (~EmailTaken(e) /\ ByVerificationToken(t) # {}) =>
              register_with(e, p, t).st = Same
    /\ \A e \in Emails, t \in TokenValues :
          (\E u \in ByResetToken(t) : u.email # e) =>
              request_password_reset_with(e, t).st = Same

\* C26: of two reset_password requests with the same reset token and
\* different new passwords, at most one succeeds, and when one has succeeded
\* the other is answered InvalidToken.
C26_ResetConsumptionAtomic ==
    \A c \in DOMAIN requests, d \in DOMAIN requests :
        (/\ c # d
         /\ requests[c].token = requests[d].token
         /\ requests[c].new_password # requests[d].new_password
         /\ requests[c].pc = "answered" /\ requests[d].pc = "answered"
         /\ requests[c].status = 200)
        => /\ requests[d].status # 200
           /\ requests[d].detail = "InvalidToken"

\* the rows of the contact book that do not belong to account id
NotOwnedBy(rows, id) == {c \in rows : c.user_id # id}

\* C22: contact ownership isolation. For every account A, in every reachable
\* state: listing returns exactly A's contacts and a search only contacts of
\* A; reading, updating or deleting a contact of another account answers 404
\* and leaves the contact book as it was; reading A's own contact returns it;
\* and whatever create, update or delete does as A, and whatever a request of
\* A in flight goes on to write, the contacts of the other accounts stay as
\* they are.
C22_ContactOwnershipIsolation ==
    /\ \A e \in Emails :
          LET token == TokenFor(e)
              id == Account(e).id
              mine == {ContactOut(c) : c \in contacts \ NotOwnedBy(contacts, id)}
          IN
          /\ read_contacts(token).status = 200
          /\ read_contacts(token).body = Some(mine)
          /\ \A q \in Queries :
                /\ search_contacts(token, q).status = 200
                /\ Val(search_contacts(token, q).body) \subseteq mine
          /\ \A x \in contacts :
                IF x.user_id # id
                THEN /\ read_contact(token, x.id).status = 404
                     /\ read_contact(token, x.id).body = None
                     /\ delete_contact(token, x.id).status = 404
                     /\ delete_contact(token, x.id).contacts = contacts
                     /\ \A u \in ContactUpdates :
                           /\ update_contact(token, x.id, u).status = 404
                           /\ update_contact(token, x.id, u).contacts = contacts
                ELSE /\ read_contact(token, x.id).body = Some(ContactOut(x))
                     /\ NotOwnedBy(delete_contact(token, x.id).contacts, id)
                           = NotOwnedBy(contacts, id)
                     /\ \A u \in ContactUpdates :
                           NotOwnedBy(update_contact(token, x.id, u).contacts, id)
                               = NotOwnedBy(contacts, id)
          /\ \A contact \in ContactInputs :
                NotOwnedBy(create_contact(token, contact).contacts, id)
                    = NotOwnedBy(contacts, id)
    /\ \A c \in InFlight("create_contact") :
          NotOwnedBy(create_contact_insert(Same, requests[c].user_id,
                                           requests[c].contact).contacts,
                     requests[c].user_id)
              = NotOwnedBy(contacts, requests[c].user_id)
    /\ \A c \in InFlight("update_contact") :
          NotOwnedBy(update_contact_commit(Same, requests[c].contact_id,
                                           requests[c].changes).contacts,
                     requests[c].user_id)
              = NotOwnedBy(contacts, requests[c].user_id)

\* each of the two accounts has a contact, with the same email and so both
\* matched by the same search, and an update of one of them is in flight
C22_Witness ==
    /\ \E x \in contacts, y \in contacts :
          /\ x.user_id # y.user_id
          /\ x.email = y.email
          /\ read_contact(TokenFor("a@x.com"), x.id).status = 200
          /\ read_contact(TokenFor("a@x.com"), y.id).status = 404
    /\ InFlight("update_contact") # {}

\* C23: a contact's email is unique per owner: no two contacts of one owner
\* have the same email, whatever create_contact and update_contact requests
\* were served, at the same time or one after the other; and a create or an
\* update that would produce a duplicate is answered 400 and changes nothing.
C23_ContactEmailUniquePerOwner ==
    /\ \A x \in contacts, y \in contacts :
          (x.id # y.id /\ x.user_id = y.user_id) => x.email # y.email
    /\ \A e \in Emails : \A x \in contacts :
          x.user_id = Account(e).id =>
             /\ \A contact \in ContactInputs :
                   contact.email = x.email =>
                      /\ create_contact(TokenFor(e), contact).status = 400
                      /\ create_contact(TokenFor(e), contact).contacts = contacts
             /\ \A y \in contacts : \A u \in ContactUpdates :
                   (/\ y.id # x.id /\ y.user_id = x.user_id
                    /\ Truthy(u, "email") /\ Val(u["email"]) = x.email) =>
                      /\ update_contact(TokenFor(e), y.id, u).status = 400
                      /\ update_contact(TokenFor(e), y.id, u).contacts = contacts

\* the requests a partial update is judged on: the ones the contact book is
\* driven with, patches of one or two other fields, an explicit null for the
\* nullable column and one for a column that is not nullable
ContactPatches ==
    ContactUpdates \cup
    {[extra |-> None], [extra |-> Some("note")],
     [phone |-> Some("+380670000000"), birthday |-> Some("2000-02-02")],
     [surname |-> Some(NameAn), extra |-> Some("note")],
     [name |-> None]}
ContactFields == {"name", "surname", "email", "phone", "birthday", "extra"}

\* C31: after a successful update_contact every field the request names has
\* the request's value, every field it does not name keeps its value, the id
\* and the owner of the contact are the same, and every other contact and the
\* id counter are untouched
C31_PartialUpdateFrame ==
    \A token \in OwnerTokens : \A x \in contacts : \A u \in ContactPatches :
        LET out == update_contact(token, x.id, u) IN
        out.status = 200 =>
            \E y \in out.contacts :
                /\ y.id = x.id
                /\ y.user_id = x.user_id
                /\ \A k \in DOMAIN u \ {"extra"} : y[k] = Val(u[k])
                /\ "extra" \in DOMAIN u => y.extra = u.extra
                /\ \A k \in ContactFields \ DOMAIN u : y[k] = x[k]
                /\ out.contacts \ {y} = contacts \ {x}
                /\ Cardinality(out.contacts) = Cardinality(contacts)
                /\ out.next_contact_id = next_contact_id
                /\ out.body = Some(ContactOut(y))

\* two contacts in the book, and a request that changes one of them
C31_Witness ==
    /\ Cardinality(contacts) = 2
    /\ \E token \in OwnerTokens : \E x \in contacts : \E u \in ContactUpdates :
          /\ update_contact(token, x.id, u).status = 200
          /\ update_contact(token, x.id, u).contacts # contacts
    /\ \E token \in OwnerTokens : \E x \in contacts :
          /\ update_contact(token, x.id, [extra |-> Some("note")]).status = 200
          /\ update_contact(token, x.id, [name |-> None]).status = 500

\* C32: an upload of a supported type and size by an authenticated account
\* that the image host refuses is answered 500; the store is as before, the
\* stored image reference of the account with it, and the cache is as the
\* Session Resolver left it when it resolved the account: an entry that was
\* there is unchanged.
C32_HostFailureChangesNothing ==
    \A e \in Emails :
        LET r == get_current_user(TokenFor(e))
            out == upload_user_avatar(TokenFor(e), "image/png", 10 * 1024, FALSE)
        IN r.status = 200 =>
              /\ out.status = 500
              /\ out.st.users = users
              /\ Account(e).avatar_url = First({u \in out.st.users : u.email = e}).avatar_url
              /\ out.st.redis = r.st.redis
              /\ get_cached_user(out.st.redis, e, now) = get_cached_user(r.st.redis, e, now)
              /\ ~IsNone(Cached(e)) => out.st.redis = redis
              /\ "cloudinary.upload" \in {out.calls[i] : i \in DOMAIN out.calls}
              /\ "db.commit" \notin {out.calls[i] : i \in DOMAIN out.calls}

\* an account with a stored image whose cache entry has run out, and one in
\* the cache, each with an upload the image host refuses
C32_Witness ==
    /\ \E e \in Emails :
          /\ HasAccount(e) /\ ~IsNone(Account(e).avatar_url)
          /\ get_current_user(TokenFor(e)).persistent
          /\ upload_user_avatar(TokenFor(e), "image/png", 10 * 1024, FALSE).status = 500
    /\ \E e \in Emails :
          /\ ~IsNone(Cached(e))
          /\ upload_user_avatar(TokenFor(e), "image/png", 10 * 1024, FALSE).status = 500

\* C35: a password reset revokes nothing: the access token Login issues for
\* an account just before a step in which ConsumePasswordReset succeeds for
\* that account is resolved to the account right after the step, and a token
\* of the account that had expired is still refused.
C35_NoRevocationOnReset ==
    [][\A t \in ResetTokens, e \in Emails, old \in Passwords, new \in Passwords :
          (ResetConsumedStep(t, e, old, new) /\ login(e, old).status = 200)
          => \A tok \in ValidTokens(now) \cup ExpiredTokens(now) :
                tok.claims.sub = Some(e)
                => /\ tok = Val(login(e, old).body).access_token
                        => /\ (get_current_user(tok).status = 200)'
                           /\ (Val(get_current_user(tok).user).id = Account(e).id)'
                           /\ (Val(get_current_user(tok).user).email = e)'
                   /\ tok \in ExpiredTokens(now)
                        => (get_current_user(tok).detail = "InvalidToken")']_vars

\* a verified account right after its password was reset: nothing is cached
\* for it, the new password logs in, and the token Login issues at this time is
\* resolved to the account from the store
C35_Witness ==
    \E e \in DOMAIN current_pw :
        /\ consumed_tokens # {}
        /\ current_pw[e] # registered[e].password
        /\ UserKey(e) \notin DOMAIN redis
        /\ login(e, current_pw[e]).status = 200
        /\ get_current_user(Val(login(e, current_pw[e]).body).access_token).status = 200
        /\ get_current_user(Val(login(e, current_pw[e]).body).access_token).persistent

\* the row with id i keeps its verified flag and its verification token in rows
SameVerification(rows, u) ==
    \A v \in rows : v.id = u.id =>
        /\ v.is_verified = u.is_verified
        /\ v.verification_token = u.verification_token

\* what the reset flow does to an account, verified or not: the request is
\* accepted, stores the token it mails, and the token is consumed while it has
\* not expired; neither call touches the verified flag or the verification
\* token of any account
ResetFlowLeavesVerification ==
    \A u \in users :
        /\ LET out == request_password_reset(u.email) IN
              /\ out.status = 200
              /\ Len(out.mail) = 1
              /\ \A w \in users : SameVerification(out.st.users, w)
              /\ \A v \in out.st.users :
                    v.id = u.id => v.reset_token = Some(out.mail[1][2])
        /\ \A t \in ResetTokens, p \in Passwords :
              (u.reset_token = Some(t) /\ ~ResetExpired(u, now)) =>
                  LET out == reset_password(t, p) IN
                  /\ out.status = 200
                  /\ \A w \in users : SameVerification(out.st.users, w)
                  /\ \A v \in out.st.users :
                        v.id = u.id => verify_password(p, v.hashed_password)

\* C36: RequestPasswordReset and ConsumePasswordReset are accepted for an
\* account whether it is verified or not and leave the verified flag and the
\* verification token of every account as they were; right after a step in
\* which an unverified account has reset its password, Login with the new
\* password is refused with NotVerified.
C36_ResetOrthogonalToVerification ==
    /\ []ResetFlowLeavesVerification
    /\ [][\A t \in ResetTokens, e \in Emails, old \in Passwords, new \in Passwords :
            (ResetConsumedStep(t, e, old, new) /\ ~Account(e).is_verified)
            => /\ (~Account(e).is_verified)'
               /\ (~IsNone(Account(e).verification_token))'
               /\ (login(e, new).status = 403)'
               /\ (login(e, new).detail = "NotVerified")']_vars

\* an unverified account whose password a reset has replaced: it still holds
\* its verification token and Login with the new password answers NotVerified
C36_Witness ==
    \E e \in DOMAIN current_pw :
        /\ consumed_tokens # {}
        /\ current_pw[e] # registered[e].password
        /\ ~Account(e).is_verified
        /\ Account(e).verification_token = Some(registered[e].token)
        /\ login(e, current_pw[e]).detail = "NotVerified"

\* Register while the mail server refuses: for an identity without an account
\* the request fails, no message goes out, and the store holds one more row,
\* the identity's, unverified and with a verification token, committed before
\* the mail was tried; for an identity with an account the request is refused
\* with Conflict and nothing changes
RegisterWithoutMail ==
    \A e \in Emails, p \in Passwords :
        LET out == register(e, p) IN
        IF HasAccount(e)
        THEN /\ out.status = 409
             /\ out.st = Same
        ELSE /\ out.status = 500
             /\ out.mail = <<>>
             /\ out.calls = <<"db.query", "db.commit", "mail.send">>
             /\ Cardinality(out.st.users \ users) = 1
             /\ users \subseteq out.st.users
             /\ \A u \in out.st.users \ users :
                   /\ u.email = e
                   /\ ~u.is_verified
                   /\ ~IsNone(u.verification_token)
                   /\ verify_password(p, u.hashed_password)

\* C38: while the mail sender fails, Register for a new identity fails and
\* leaves the account in the store, unverified and holding its verification
\* token; right after a step that stored the account, Register with the same
\* identity and any password answers Conflict and changes nothing.
C38_RegisterCommitsBeforeMail ==
    /\ []RegisterWithoutMail
    /\ [][\A e \in Emails :
            (~HasAccount(e) /\ HasAccount(e)')
            => /\ \A p \in Passwords : register(e, p).status = 500
               /\ (~Account(e).is_verified)'
               /\ (~IsNone(Account(e).verification_token))'
               /\ \A p \in Passwords :
                     /\ (register(e, p).status = 409)'
                     /\ (register(e, p).detail = "Conflict")'
                     /\ (register(e, p).st = Same)']_vars

\* an account whose Register was answered with a failure: no 201 was ever
\* given, the row is unverified with its token, a retry is refused with
\* Conflict, and another identity's Register would fail the same way
C38_Witness ==
    \E e \in Emails, o \in Emails :
        /\ ~mail_up
        /\ HasAccount(e) /\ e \notin DOMAIN registered
        /\ ~Account(e).is_verified
        /\ ~IsNone(Account(e).verification_token)
        /\ register(e, "secret1").status = 409
        /\ ~HasAccount(o)
        /\ register(o, "secret1").status = 500

\* the verified accounts of the store are verified accounts of rows, with the
\* same id and identity and without a verification token
StaysVerified(rows) ==
    \A u \in users :
        u.is_verified =>
            \E v \in rows :
                /\ v.id = u.id
                /\ v.email = u.email
                /\ v.is_verified
                /\ IsNone(v.verification_token)

\* a verified account holds no verification token, and the handlers of the
\* contact book hand the accounts back as they found them
VerifiedForGood ==
    /\ \A u \in users : u.is_verified => IsNone(u.verification_token)
    /\ \A token \in ValidTokens(now) :
          /\ read_contacts(token).st.users = users
          /\ search_contacts(token, <<"@">>).st.users = users
          /\ \A i \in ContactIds :
                /\ read_contact(token, i).st.users = users
                /\ delete_contact(token, i).st.users = users
                /\ \A contact_update \in ContactUpdates :
                      update_contact(token, i, contact_update).st.users = users
          /\ \A contact \in ContactInputs :
                create_contact(token, contact).st.users = users

\* C39: verification is for good: no step of Register, VerifyEmail, Login,
\* RequestPasswordReset, ConsumePasswordReset, UpdateProfileImage, the
\* Session Resolver or the clock makes a verified account unverified, removes
\* it or gives it a verification token, and no contact operation writes an
\* account.
C39_VerificationMonotonic ==
    /\ []VerifiedForGood
    /\ [][StaysVerified(users')]_vars

\* a verified account that has since reset its password and stored an image
C39_Witness ==
    \E e \in DOMAIN current_pw :
        /\ Account(e).is_verified
        /\ IsNone(Account(e).verification_token)
        /\ registered[e].token \in verified_tokens
        /\ current_pw[e] # registered[e].password
        /\ ~IsNone(Account(e).avatar_url)

\* every account of the store is in rows with the password hash it has
SameHashes(rows) ==
    \A u \in users : \E v \in rows : v.id = u.id /\ v.hashed_password = u.hashed_password

\* what each handler does to the password hashes, whatever it is called with:
\* only reset_password writes one, only when it answers 200, and then only in
\* the row that holds the presented token and whose expiry has not passed
HashWrittenByResetOnly ==
    /\ \A e \in Emails, p \in Passwords :
          /\ SameHashes(register(e, p).st.users)
          /\ HasAccount(e) => register(e, p).st = Same
          /\ SameHashes(login(e, p).st.users)
    /\ \A e \in Emails : SameHashes(request_password_reset(e).st.users)
    /\ \A t \in VerificationTokens \cup {BogusToken} :
          SameHashes(verify_email(t).st.users)
    /\ \A token \in BearerTokens(now) :
          /\ SameHashes(get_current_user(token).st.users)
          /\ SameHashes(get_me(token).st.users)
          /\ \A f \in Uploads :
                SameHashes(upload_user_avatar(token, f[1], f[2], f[3]).st.users)
    /\ \A t \in ResetTokens \cup {BogusToken}, p \in Passwords :
          LET out == reset_password(t, p) IN
          IF out.status = 200
          THEN \A u \in users :
                  \/ u \in out.st.users
                  \/ /\ u.reset_token = Some(t)
                     /\ ~ResetExpired(u, now)
          ELSE out.st = Same

\* C40: a password hash in the store changes only in a step in which
\* ConsumePasswordReset succeeds with the reset token the account holds at
\* that time, before its expiry; Register (new or conflicting), VerifyEmail,
\* Login, RequestPasswordReset, a ConsumePasswordReset that fails, the Session
\* Resolver and UpdateProfileImage leave every account's hash as it was.
C40_HashChangesByResetOnly ==
    /\ []HashWrittenByResetOnly
    /\ [][\A u \in users : \A v \in users' :
            (v.id = u.id /\ v.hashed_password # u.hashed_password)
            => \E t \in ResetTokens :
                  /\ u.reset_token = Some(t)
                  /\ ~ResetExpired(u, now)
                  /\ t \notin consumed_tokens
                  /\ t \in consumed_tokens']_vars

\* two accounts, one whose hash a reset has replaced and one that still has
\* the hash Register gave it, after a login and an upload
C40_Witness ==
    \E e \in DOMAIN current_pw, o \in DOMAIN current_pw :
        /\ e # o
        /\ consumed_tokens # {}
        /\ Account(e).hashed_password # get_password_hash(registered[e].password,
                                                          FirstSalt(Account(e).id))
        /\ verify_password(current_pw[e], Account(e).hashed_password)
        /\ Account(o).hashed_password = get_password_hash(registered[o].password,
                                                          FirstSalt(Account(o).id))
        /\ ~IsNone(Account(o).avatar_url)

\* the reset tokens reset_password accepts are the ones mailed last: a token
\* is accepted exactly when it is the last one mailed to some account, not
\* yet consumed, and its expiry has not passed; a token that is not the last
\* one of any account is answered InvalidToken, an expired last one
\* TokenExpired
LastResetTokenOnly ==
    \A t \in ResetTokensAgain, p \in Passwords :
        LET out == reset_password(t, p)
            last == {e \in DOMAIN reset_issued : reset_issued[e].token = t}
        IN /\ last = {} => (out.status = 400 /\ out.detail = "InvalidToken")
           /\ \A e \in last :
                 /\ Account(e).reset_token = Some(t)
                 /\ Account(e).reset_token_expires =
                        Some(reset_issued[e].at + Hours(ResetTokenHours))
                 /\ IF now <= reset_issued[e].at + Hours(ResetTokenHours)
                    THEN /\ out.status = 200
                         /\ \A v \in out.st.users :
                               v.email = e => verify_password(p, v.hashed_password)
                    ELSE out.status = 400 /\ out.detail = "TokenExpired"

\* C37: an account holds one reset token at a time: right after a step in
\* which RequestPasswordReset replaces the token an account holds, the row
\* holds the new token with an expiry one hour ahead, ConsumePasswordReset
\* with the earlier token answers InvalidToken and with the new token
\* succeeds; and in every state the tokens ConsumePasswordReset accepts are
\* the last ones mailed, each until its own expiry has passed.
C37_OneResetTokenPerAccount ==
    /\ []LastResetTokenOnly
    /\ [][\A e \in Emails : \A t1 \in ResetTokensAgain, t2 \in ResetTokensAgain :
            (/\ HasAccount(e)
             /\ Account(e).reset_token = Some(t1)
             /\ (Account(e).reset_token = Some(t2))'
             /\ t1 # t2)
            => /\ (Account(e).reset_token_expires = Some(now + Hours(ResetTokenHours)))'
               /\ \A p \in Passwords :
                     /\ (reset_password(t1, p).status = 400)'
                     /\ (reset_password(t1, p).detail = "InvalidToken")'
                     /\ (reset_password(t1, p).st = Same)'
                     /\ (reset_password(t2, p).status = 200)']_vars

\* an account that asked for a reset twice, an hour apart: the row holds the
\* second token, which is accepted, and the first, not yet expired, is not
C37_Witness ==
    \E e \in DOMAIN reset_issued :
        /\ reset_issued[e].token = token_urlsafe(<<"reset", 2>>)
        /\ Account(e).reset_token = Some(token_urlsafe(<<"reset", 2>>))
        /\ consumed_tokens = {}
        /\ rnd = 2
        /\ now = reset_issued[e].at
        /\ now = Hours(ResetTokenHours)
        /\ Account(e).hashed_password =
              get_password_hash(registered[e].password, FirstSalt(Account(e).id))
        /\ reset_password(token_urlsafe(<<"reset", 1>>), "secret2").detail = "InvalidToken"
        /\ reset_password(token_urlsafe(<<"reset", 2>>), "secret2").status = 200

\* C34: of two Register requests for the same identity that are handled at
\* the same time, one creates the account and the other is answered Conflict:
\* the store holds at most one account per identity, at most one of the
\* requests is answered 201, and every request is answered 201 or 409.
C34_ConcurrentRegisterConflict ==
    /\ \A e \in Emails : Cardinality(ByEmail(e)) <= 1
    /\ \A c \in DOMAIN requests :
          requests[c].pc = "answered" => requests[c].status \in {201, 409}
    /\ \A c \in DOMAIN requests, d \in DOMAIN requests :
          (/\ c # d
           /\ requests[c].email = requests[d].email
           /\ requests[c].pc = "answered" /\ requests[d].pc = "answered"
           /\ requests[c].status = 201)
          => requests[d].status = 409

====
